---- MODULE Spec2Model ----
(***************************************************************************)
(* A model of the AI VTuber pipeline (src/core/pipeline.py), its dialogue  *)
(* session (src/llm/chat.py) and the VTube Studio control-plane client     *)
(* (src/vts/api_helper.py).                                                *)
(*                                                                         *)
(* Texts are sequences of characters; a character is a one-element string. *)
(* Characters outside ASCII carry a name: "KUTEN" is the ideographic full  *)
(* stop, "ELL" the horizontal ellipsis.                                    *)
(***************************************************************************)
EXTENDS Integers, Sequences, FiniteSets, TLC

\* ------------------------------------------------------------------ bounds
\* recognised utterances delivered by the recogniser in one run
MaxUtter == 2
\* reply tokens streamed by the conversational service in one run
MaxTokens == 2
\* Settings.tts_chunk_size as configured for the model
tts_chunk_size == 3
\* Settings.ollama_max_history as configured for the model
max_history == 3
\* sockets the server accepts in one run
MaxSockets == 2
\* requests a client sends in one run
MaxReq == 4
\* the same where the server goes down for good
MaxReqDown == 5
\* the same where a caller connects, closes and connects again
MaxReqTok == 6
\* public operations one caller thread starts in one run
MaxOps == 1
\* sockets the network drops in one run
MaxKills == 1
\* heartbeats sent in one run
MaxBeats == 1
\* tokens the server issues in one run
MaxIssued == 1
\* _handle_disconnection activations nested in one thread
MaxDepth == 1
\* texts the recogniser delivers
MaxHeard == 2
\* entries of the classification cache
cache_size == 2
\* lifetime of an entry of the classification cache
cache_ttl == 1
\* calls of the classifier in one run
MaxCalls == 3
\* the clock of the classifier
MaxTime == 2
\* duration of a call of the conversational service
MaxDelay == 1
\* length of a text handed to split_text_into_chunks
MaxLen == 5
\* max_size handed to split_text_into_chunks
MaxSize == 3
\* messages appended to the conversation history in one run
MaxAppends == 5
\* distinct user messages accepted in one run
MaxDistinct == 12
\* blinks made in one run
MaxBlinks == 2
\* calls of is_directed_to_ai in one run over three texts
MaxLruCalls == 5
\* audio chunks of one played stream
MaxFrames == 3
\* streams played in one run
MaxPlays == 2

\* ------------------------------------------------------- program constants
msg_cache_maxlen == 10
RECONNECT_MAX_ATTEMPTS == 5
auto_reconnect == TRUE

\* -------------------------------------------------------------------- text
SpaceChars == {" ", "\n"}
TermChars == {".", "!", "?", "KUTEN"}
ELL == "ELL"

RECURSIVE lstrip(_)
lstrip(s) == IF s # <<>> /\ Head(s) \in SpaceChars THEN lstrip(Tail(s)) ELSE s

RECURSIVE rstrip(_)
rstrip(s) ==
  IF s # <<>> /\ s[Len(s)] \in SpaceChars THEN rstrip(SubSeq(s, 1, Len(s) - 1)) ELSE s

\* str.strip()
strip(s) == rstrip(lstrip(s))

lower_char(c) == CASE c = "Q" -> "q" [] c = "A" -> "a" [] c = "X" -> "x" [] OTHER -> c

\* str.lower()
lower(s) == [i \in 1..Len(s) |-> lower_char(s[i])]

\* the first index at or after i whose character is not in cls
RECURSIVE SpanEnd(_, _, _)
SpanEnd(s, i, cls) == IF i <= Len(s) /\ s[i] \in cls THEN SpanEnd(s, i + 1, cls) ELSE i

FirstIn(s, cls) ==
  IF \E i \in 1..Len(s) : s[i] \in cls
  THEN CHOOSE i \in 1..Len(s) : s[i] \in cls /\ \A j \in 1..(i - 1) : s[j] \notin cls
  ELSE 0

\* re.split(r'([A]+[B]*)', s): the pieces between the separators and the
\* separators themselves, alternating, beginning and ending with a piece
RECURSIVE re_split(_, _, _)
re_split(s, A, B) ==
  LET p == FirstIn(s, A) IN
  IF p = 0 THEN <<s>>
  ELSE LET e == SpanEnd(s, SpanEnd(s, p, A), B) IN
       <<SubSeq(s, 1, p - 1), SubSeq(s, p, e - 1)>> \o re_split(SubSeq(s, e, Len(s)), A, B)

\* re.sub(r'[cls]+', ' ', s)
RECURSIVE re_sub_runs(_, _)
re_sub_runs(s, cls) ==
  IF s = <<>> THEN <<>>
  ELSE IF Head(s) \in cls
       THEN <<" ">> \o re_sub_runs(SubSeq(s, SpanEnd(s, 1, cls), Len(s)), cls)
       ELSE <<Head(s)>> \o re_sub_runs(Tail(s), cls)

\* str.replace('...', '… ')
RECURSIVE replace_dots(_)
replace_dots(s) ==
  IF s = <<>> THEN <<>>
  ELSE IF Len(s) >= 3 /\ s[1] = "." /\ s[2] = "." /\ s[3] = "."
       THEN <<ELL, " ">> \o replace_dots(SubSeq(s, 4, Len(s)))
       ELSE <<Head(s)>> \o replace_dots(Tail(s))

\* tts_thread_func's preprocessing of a dequeued text, and the strip() of the
\* argument it hands to synthesize_and_play
preprocess(text) ==
  strip(replace_dots(re_sub_runs(re_sub_runs(text, {"\n"}), SpaceChars)))

\* ---------------------------------------------------------------- segmenter
\* a word loop that drops the words collected so far when the next one does
\* not fit
RECURSIVE PackWordsDropping(_, _, _, _)
PackWordsDropping(words, max_size, chunks, sub_chunk) ==
  IF words = <<>> THEN <<chunks, sub_chunk>>
  ELSE LET word == Head(words) IN
       IF Len(sub_chunk) + Len(word) <= max_size
       THEN PackWordsDropping(Tail(words), max_size, chunks, sub_chunk \o word)
       ELSE PackWordsDropping(Tail(words), max_size, chunks, word)

\* a word loop that saves the words collected so far even when there are none
RECURSIVE PackWordsKeepEmpty(_, _, _, _)
PackWordsKeepEmpty(words, max_size, chunks, sub_chunk) ==
  IF words = <<>> THEN <<chunks, sub_chunk>>
  ELSE LET word == Head(words) IN
       IF Len(sub_chunk) + Len(word) <= max_size
       THEN PackWordsKeepEmpty(Tail(words), max_size, chunks, sub_chunk \o word)
       ELSE PackWordsKeepEmpty(Tail(words), max_size, Append(chunks, sub_chunk), word)

\* the word loop of split_text_into_chunks: <<chunks, sub_chunk>> after it
RECURSIVE PackWords(_, _, _, _)
PackWords(words, max_size, chunks, sub_chunk) ==
  IF words = <<>> THEN <<chunks, sub_chunk>>
  ELSE LET word == Head(words) IN
       IF Len(sub_chunk) + Len(word) <= max_size
       THEN PackWords(Tail(words), max_size, chunks, sub_chunk \o word)
       ELSE PackWords(Tail(words), max_size,
                      IF sub_chunk # <<>> THEN Append(chunks, sub_chunk) ELSE chunks,
                      word)

\* the sentence loop of split_text_into_chunks from index i (1-based) on:
\* <<chunks, current_chunk>> after it
RECURSIVE PackSentences(_, _, _, _, _)
PackSentences(sentences, i, max_size, chunks, current_chunk) ==
  IF i > Len(sentences) THEN <<chunks, current_chunk>>
  ELSE LET sentence == sentences[i]
           ending == IF i + 1 <= Len(sentences) THEN sentences[i + 1] ELSE <<>>
       IN IF Len(current_chunk) + Len(sentence) + Len(ending) <= max_size
          THEN PackSentences(sentences, i + 2, max_size, chunks,
                             current_chunk \o sentence \o ending)
          ELSE LET saved == IF current_chunk # <<>>
                            THEN Append(chunks, current_chunk) ELSE chunks
               IN IF Len(sentence) + Len(ending) > max_size
                  THEN LET r == PackWords(re_split(sentence \o ending, SpaceChars, {}),
                                          max_size, saved, <<>>)
                       IN PackSentences(sentences, i + 2, max_size, r[1], r[2])
                  ELSE PackSentences(sentences, i + 2, max_size, saved,
                                     sentence \o ending)

\* split_text_into_chunks without the early return for a short text
split_always(text, max_size) ==
  LET r == PackSentences(re_split(text, TermChars, SpaceChars), 1, max_size, <<>>, <<>>)
  IN IF r[2] # <<>> THEN Append(r[1], r[2]) ELSE r[1]

split_text_into_chunks(text, max_size) ==
  IF Len(text) <= max_size THEN <<text>>
  ELSE LET r == PackSentences(re_split(text, TermChars, SpaceChars), 1, max_size,
                              <<>>, <<>>)
       IN IF r[2] # <<>> THEN Append(r[1], r[2]) ELSE r[1]

\* the chunks process_llm_response(text) puts on tts_queue, in order
RECURSIVE StrippedNonEmpty(_)
StrippedNonEmpty(chunks) ==
  IF chunks = <<>> THEN <<>>
  ELSE (IF strip(Head(chunks)) # <<>> THEN <<strip(Head(chunks))>> ELSE <<>>)
       \o StrippedNonEmpty(Tail(chunks))

process_llm_response(text) ==
  IF strip(text) = <<>> THEN <<>>
  ELSE StrippedNonEmpty(split_text_into_chunks(text, tts_chunk_size))

\* =================================================================== pipeline
\* AIVTubePipeline (src/core/pipeline.py) with its OllamaChat session
VARIABLES
  recognized_queue,      \* queue.Queue of recognised utterances (uid is a ghost tag)
  tts_queue,             \* queue.Queue of chunk texts (n is a ghost tag: the place in putLog)
  unfinished_tasks,      \* tts_queue.unfinished_tasks (put / task_done accounting)
  stop_event,            \* threading.Event: the shutdown signal
  is_speaking,           \* threading.Event: the speaking flag
  conversation_history,  \* OllamaChat.conversation_history, a deque(maxlen)
  msg_cache,             \* OllamaChat._msg_cache keys, oldest first
  mainPc,                \* position of main_loop
  cur,                   \* main_loop's text (with its ghost uid)
  is_busy,               \* main_loop's is_busy
  full_response,         \* main_loop's full_response
  token_buffer,          \* main_loop's token_buffer
  ttsPc,                 \* position of tts_thread_func
  sttPc,                 \* position of stt_thread_func
  stopPc,                \* position of a stop() call
  nrecognized,           \* utterances delivered so far
  ntokens,               \* tokens streamed so far
  putLog,                \* ghost: texts put on tts_queue, in order
  playLog,               \* ghost: <<n, text>> handed to synthesize_and_play, in order
  trace                  \* ghost: main_loop's steps, <<uid, step>>, in order

\* the VTubeStudioAPI object, the threads running its code and the server
\* behind its sockets (a record; its fields are listed at InitVts)
VARIABLE vts

\* the AnimationController (src/vts/animation.py): its stop signal and the
\* position of its blink thread
VARIABLE anim

\* the SpeechRecognizer (src/stt/recorder.py) and its recognition thread
VARIABLE rec

\* the SpeechClassifier (src/llm/classifier.py), the clock and the calls made
VARIABLE cls

\* one call of split_text_into_chunks: its arguments and what it returned
VARIABLE seg

\* history of the calls made on the OllamaChat session
VARIABLE chat

\* one run of AnimationController._blink_sequence
VARIABLE blink

\* one call of TTSManager.play_audio
VARIABLE tts

varsMore == <<seg, chat, blink, tts>>

varsPipe == <<recognized_queue, tts_queue, unfinished_tasks, stop_event, is_speaking,
              conversation_history, msg_cache, mainPc, cur, is_busy, full_response,
              token_buffer, ttsPc, sttPc, stopPc, nrecognized, ntokens, putLog,
              playLog, trace>>

\* what the recogniser may deliver
RecognizedTexts == {<<" ">>, <<"q">>, <<"Q", " ">>}
\* what the conversational service may stream
Tokens == {<<>>, <<" ">>, <<"a">>, <<".", ".", ".">>, <<"a", "b", " ", "c">>}

APOLOGY == <<"apology">>
BG_TAG == <<"(bg)", " ">>
NoText == [uid |-> 0, text |-> <<>>]

\* a list's append: nothing is dropped
list_append(h, m) == Append(h, m)

\* deque(maxlen=max_history).append(m)
deque_append(h, m) ==
  LET a == Append(h, m) IN
  IF Len(a) > max_history THEN SubSeq(a, Len(a) - max_history + 1, Len(a)) ELSE a

\* a cache that is never trimmed
keep_msg_cache(c) == c

\* OllamaChat._trim_msg_cache: the oldest keys beyond the maximum are dropped
trim_msg_cache(c) ==
  IF Len(c) > msg_cache_maxlen THEN SubSeq(c, Len(c) - msg_cache_maxlen + 1, Len(c)) ELSE c

InCache(c, k) == \E i \in 1..Len(c) : c[i] = k

\* OllamaChat.add_user_message: <<history, cache, accepted>>
add_user_message(h, c, message) ==
  IF strip(message) = <<>> THEN <<h, c, FALSE>>
  ELSE LET norm_msg == lower(strip(message)) IN
       IF InCache(c, norm_msg) THEN <<h, c, FALSE>>
       ELSE <<deque_append(h, [role |-> "user", content |-> message]),
              trim_msg_cache(Append(c, norm_msg)), TRUE>>

\* a reply recorded whatever it holds
add_assistant_message_always(h, message) ==
  deque_append(h, [role |-> "assistant", content |-> message])

\* OllamaChat.add_assistant_message
add_assistant_message(h, message) ==
  IF strip(message) # <<>>
  THEN deque_append(h, [role |-> "assistant", content |-> message]) ELSE h

\* a background message recorded without the background tag
add_untagged_message(h, message) ==
  deque_append(h, [role |-> "user", content |-> message])

\* OllamaChat.add_background_message
add_background_message(h, message) ==
  IF strip(message) # <<>>
  THEN deque_append(h, [role |-> "user", content |-> BG_TAG \o message]) ELSE h

\* a queue that hands out its newest item first
QueueGetNewest(q) == <<q[Len(q)], SubSeq(q, 1, Len(q) - 1)>>

\* queue.Queue.get on a non-empty queue: the item and the rest
QueueGet(q) == <<Head(q), Tail(q)>>

\* a queue whose put places the items in front of the waiting ones
QueuePutFront(q, items) == items \o q

\* a queue whose put enqueues every item twice
QueuePutTwice(q, items) == q \o items \o items

\* queue.Queue.put
QueuePut(q, items) == q \o items

InitPipe ==
  /\ recognized_queue = <<>>
  /\ tts_queue = <<>>
  /\ unfinished_tasks = 0
  /\ stop_event = FALSE
  /\ is_speaking = FALSE
  /\ conversation_history = <<>>
  /\ msg_cache = <<>>
  /\ mainPc = "init"
  /\ cur = NoText
  /\ is_busy = FALSE
  /\ full_response = <<>>
  /\ token_buffer = <<>>
  /\ ttsPc = "init"
  /\ sttPc = "init"
  /\ stopPc = "idle"
  /\ nrecognized = 0
  /\ ntokens = 0
  /\ putLog = <<>>
  /\ playLog = <<>>
  /\ trace = <<>>

\* AnimationController.start_blink_animation: the stop signal is cleared and
\* the blink thread started
start_blink_animation(a) == [a EXCEPT !.stop_event = FALSE, !.blinkPc = "loop"]

\* start(): the blink animation, the recognition and synthesis threads are
\* started, main_loop is entered
Start ==
  /\ mainPc = "init"
  /\ mainPc' = "loop"
  /\ ttsPc' = "loop"
  /\ sttPc' = "run"
  /\ anim' = start_blink_animation(anim)
  /\ UNCHANGED <<recognized_queue, tts_queue, unfinished_tasks, stop_event, is_speaking,
                 conversation_history, msg_cache, cur, is_busy, full_response,
                 token_buffer, stopPc, nrecognized, ntokens, putLog, playLog, trace>>
  /\ UNCHANGED <<vts, rec, cls, varsMore>>

\* stt_thread_func.on_recognition_result(text)
on_recognition_result(text) ==
  /\ sttPc = "run"
  /\ nrecognized < MaxUtter
  /\ nrecognized' = nrecognized + 1
  /\ recognized_queue' =
       IF strip(text) # <<>>
       THEN QueuePut(recognized_queue, <<[uid |-> nrecognized + 1, text |-> strip(text)]>>)
       ELSE recognized_queue
  /\ UNCHANGED <<tts_queue, unfinished_tasks, stop_event, is_speaking,
                 conversation_history, msg_cache, mainPc, cur, is_busy, full_response,
                 token_buffer, ttsPc, sttPc, stopPc, ntokens, putLog, playLog, trace>>
  /\ UNCHANGED <<vts, anim, rec, cls, varsMore>>

\* stt_thread_func: the wait for the shutdown signal ends, the recogniser is stopped
SttStop ==
  /\ sttPc = "run"
  /\ stop_event
  /\ sttPc' = "done"
  /\ UNCHANGED <<recognized_queue, tts_queue, unfinished_tasks, stop_event, is_speaking,
                 conversation_history, msg_cache, mainPc, cur, is_busy, full_response,
                 token_buffer, ttsPc, stopPc, nrecognized, ntokens, putLog, playLog,
                 trace>>
  /\ UNCHANGED <<vts, anim, rec, cls, varsMore>>

\* ------------------------------------------------------------------ main_loop
Log(step) == Append(trace, <<cur.uid, step>>)

\* the put of process_llm_response(text) and its ghost records
PutChunks(chunks) ==
  /\ tts_queue' = QueuePut(tts_queue, [k \in 1..Len(chunks) |->
                                        [n |-> Len(putLog) + k, text |-> chunks[k]]])
  /\ unfinished_tasks' = unfinished_tasks + Len(chunks)
  /\ putLog' = putLog \o chunks

\* while not self.stop_event.is_set()
MainLoop ==
  /\ mainPc = "loop"
  /\ mainPc' = IF stop_event THEN "done" ELSE "block"
  /\ stop_event' = stop_event
  /\ UNCHANGED <<recognized_queue, tts_queue, unfinished_tasks, is_speaking,
                 conversation_history, msg_cache, cur, is_busy, full_response,
                 token_buffer, ttsPc, sttPc, stopPc, nrecognized, ntokens, putLog,
                 playLog, trace>>
  /\ UNCHANGED <<vts, anim, rec, cls, varsMore>>

\* recognized_queue.get(timeout=1.0) returns; is_busy is read
MainGet ==
  /\ mainPc = "block"
  /\ recognized_queue # <<>>
  /\ cur' = QueueGet(recognized_queue)[1]
  /\ recognized_queue' = QueueGet(recognized_queue)[2]
  /\ is_busy' = is_speaking
  /\ trace' = Append(trace, <<QueueGet(recognized_queue)[1].uid, "get">>)
  /\ mainPc' = "classify"
  /\ UNCHANGED <<tts_queue, unfinished_tasks, stop_event, is_speaking,
                 conversation_history, msg_cache, full_response, token_buffer, ttsPc,
                 sttPc, stopPc, nrecognized, ntokens, putLog, playLog>>
  /\ UNCHANGED <<vts, anim, rec, cls, varsMore>>

\* recognized_queue.get(timeout=1.0) raises queue.Empty
MainEmpty ==
  /\ mainPc = "block"
  /\ recognized_queue = <<>>
  /\ mainPc' = "loop"
  /\ UNCHANGED <<recognized_queue, tts_queue, unfinished_tasks, stop_event, is_speaking,
                 conversation_history, msg_cache, cur, is_busy, full_response,
                 token_buffer, ttsPc, sttPc, stopPc, nrecognized, ntokens, putLog,
                 playLog, trace>>
  /\ UNCHANGED <<vts, anim, rec, cls, varsMore>>

\* speech_classifier.is_directed_to_ai(text) answers
MainClassify(directed) ==
  /\ mainPc = "classify"
  /\ IF directed
     THEN /\ mainPc' = IF is_busy THEN "wait" ELSE "add_user"
          /\ trace' = Log("directed")
          /\ UNCHANGED conversation_history
     ELSE /\ mainPc' = "loop"
          /\ trace' = Log("background")
          /\ conversation_history' = add_background_message(conversation_history, cur.text)
  /\ UNCHANGED <<recognized_queue, tts_queue, unfinished_tasks, stop_event, is_speaking,
                 msg_cache, cur, is_busy, full_response, token_buffer, ttsPc, sttPc,
                 stopPc, nrecognized, ntokens, putLog, playLog>>
  /\ UNCHANGED <<vts, anim, rec, cls, varsMore>>

\* the polling wait for the speaking flag ends
MainWait ==
  /\ mainPc = "wait"
  /\ ~is_speaking \/ stop_event
  /\ mainPc' = "add_user"
  /\ UNCHANGED <<recognized_queue, tts_queue, unfinished_tasks, stop_event, is_speaking,
                 conversation_history, msg_cache, cur, is_busy, full_response,
                 token_buffer, ttsPc, sttPc, stopPc, nrecognized, ntokens, putLog,
                 playLog, trace>>
  /\ UNCHANGED <<vts, anim, rec, cls, varsMore>>

\* a main_loop that goes back to its queue when add_user_message rejects
skip_rejected(accepted) == IF accepted THEN "stream" ELSE "loop"

\* main_loop after add_user_message: the value returned is not looked at
after_add_user(accepted) == "stream"

\* self.ollama_session.add_user_message(text); the buffers are reset
MainAddUser ==
  /\ mainPc = "add_user"
  /\ LET r == add_user_message(conversation_history, msg_cache, cur.text) IN
       /\ conversation_history' = r[1]
       /\ msg_cache' = r[2]
  /\ full_response' = <<>>
  /\ token_buffer' = <<>>
  /\ trace' = Log("user")
  /\ mainPc' = after_add_user(add_user_message(conversation_history, msg_cache,
                                               cur.text)[3])
  /\ UNCHANGED <<recognized_queue, tts_queue, unfinished_tasks, stop_event, is_speaking,
                 cur, is_busy, ttsPc, sttPc, stopPc, nrecognized, ntokens, putLog,
                 playLog>>
  /\ UNCHANGED <<vts, anim, rec, cls, varsMore>>

\* after the token loop: the remainder is flushed and the reply recorded
ReplyEnd(response, buffer) ==
  /\ PutChunks(process_llm_response(strip(buffer)))
  /\ conversation_history' = add_assistant_message(conversation_history, response)
  /\ full_response' = response
  /\ token_buffer' = buffer
  /\ trace' = Log("assistant")
  /\ mainPc' = "loop"

\* the reply stream yields a token
MainToken(token) ==
  /\ mainPc = "stream"
  /\ ntokens < MaxTokens
  /\ ntokens' = ntokens + 1
  /\ IF stop_event
     THEN ReplyEnd(full_response, token_buffer)
     ELSE LET buffer == token_buffer \o token IN
          /\ full_response' = full_response \o token
          /\ IF (Len(buffer) > tts_chunk_size
                 \/ (token # <<>> /\ token[Len(token)] \in TermChars))
                /\ strip(buffer) # <<>>
             THEN /\ PutChunks(process_llm_response(strip(buffer)))
                  /\ token_buffer' = <<>>
                  /\ trace' = Log("chunks")
             ELSE /\ token_buffer' = buffer
                  /\ UNCHANGED <<tts_queue, unfinished_tasks, putLog, trace>>
          /\ UNCHANGED <<conversation_history, mainPc>>
  /\ UNCHANGED <<recognized_queue, stop_event, is_speaking, msg_cache, cur, is_busy,
                 ttsPc, sttPc, stopPc, nrecognized, playLog>>
  /\ UNCHANGED <<vts, anim, rec, cls, varsMore>>

\* the reply stream ends
MainStreamEnd ==
  /\ mainPc = "stream"
  /\ ReplyEnd(full_response, token_buffer)
  /\ UNCHANGED <<recognized_queue, stop_event, is_speaking, msg_cache, cur, is_busy,
                 ttsPc, sttPc, stopPc, nrecognized, ntokens, playLog>>
  /\ UNCHANGED <<vts, anim, rec, cls, varsMore>>

\* the reply stream raises: the apology is queued
MainStreamError ==
  /\ mainPc = "stream"
  /\ PutChunks(<<APOLOGY>>)
  /\ trace' = Log("apology")
  /\ mainPc' = "loop"
  /\ UNCHANGED <<recognized_queue, stop_event, is_speaking, conversation_history,
                 msg_cache, cur, is_busy, full_response, token_buffer, ttsPc, sttPc,
                 stopPc, nrecognized, ntokens, playLog>>
  /\ UNCHANGED <<vts, anim, rec, cls, varsMore>>

\* ------------------------------------------------------------ tts_thread_func
\* tts_queue.task_done(): TRUE iff it raises ValueError (called too many times)
TaskDoneRaises == unfinished_tasks = 0

\* the inner finally clause: task_done(), whose ValueError ends the thread
TtsFinally ==
  IF TaskDoneRaises
  THEN ttsPc' = "dead" /\ UNCHANGED unfinished_tasks
  ELSE ttsPc' = "loop" /\ unfinished_tasks' = unfinished_tasks - 1

\* while not self.stop_event.is_set()
TtsLoop ==
  /\ ttsPc = "loop"
  /\ ttsPc' = IF stop_event THEN "done" ELSE "block"
  /\ UNCHANGED <<recognized_queue, tts_queue, unfinished_tasks, stop_event, is_speaking,
                 conversation_history, msg_cache, mainPc, cur, is_busy, full_response,
                 token_buffer, sttPc, stopPc, nrecognized, ntokens, putLog, playLog,
                 trace>>
  /\ UNCHANGED <<vts, anim, rec, cls, varsMore>>

\* tts_queue.get(timeout=1) returns a text; it is preprocessed, the speaking
\* flag is set and synthesize_and_play is entered
TtsGet ==
  /\ ttsPc = "block"
  /\ tts_queue # <<>>
  /\ tts_queue' = QueueGet(tts_queue)[2]
  /\ IF QueueGet(tts_queue)[1].text = <<>>
     THEN TtsFinally /\ UNCHANGED <<is_speaking, playLog>>
     ELSE /\ is_speaking' = TRUE
          /\ playLog' = Append(playLog, <<QueueGet(tts_queue)[1].n,
                                          preprocess(QueueGet(tts_queue)[1].text)>>)
          /\ ttsPc' = "speak"
          /\ UNCHANGED unfinished_tasks
  /\ UNCHANGED <<recognized_queue, stop_event, conversation_history, msg_cache, mainPc,
                 cur, is_busy, full_response, token_buffer, sttPc, stopPc, nrecognized,
                 ntokens, putLog, trace>>
  /\ UNCHANGED <<vts, anim, rec, cls, varsMore>>

\* tts_queue.get(timeout=1) raises queue.Empty; the finally clause runs
TtsEmpty ==
  /\ ttsPc = "block"
  /\ tts_queue = <<>>
  /\ TtsFinally
  /\ UNCHANGED <<recognized_queue, tts_queue, stop_event, is_speaking,
                 conversation_history, msg_cache, mainPc, cur, is_busy, full_response,
                 token_buffer, sttPc, stopPc, nrecognized, ntokens, putLog, playLog,
                 trace>>
  /\ UNCHANGED <<vts, anim, rec, cls, varsMore>>

\* how synthesize_and_play(text, ...) can end: at once for a blank text,
\* after playback, with the TTSError of synthesis or playback, or with any
\* other exception
SpeakOutcomes(text) ==
  IF strip(text) = <<>> THEN {"blank"} ELSE {"played", "TTSError", "Exception"}

\* on_complete=lambda: self.is_speaking.clear()
on_complete(flag) == FALSE

\* TTSManager.synthesize_and_play: the speaking flag when it returns or
\* raises; on_complete is called on every way out but an exception other
\* than TTSError
synthesize_and_play(flag, outcome) ==
  [flag |-> IF outcome = "Exception" THEN flag ELSE on_complete(flag),
   raised |-> outcome \in {"TTSError", "Exception"}]

\* an except clause that logs only
except_logs(flag) == flag

\* tts_thread_func's `except Exception`: self.is_speaking.clear()
except_clears(flag) == FALSE

\* synthesize_and_play returns or raises: on_complete or the except clause
\* clears the speaking flag, the finally clause runs
TtsSpeakEnd(outcome) ==
  /\ ttsPc = "speak"
  /\ outcome \in SpeakOutcomes(playLog[Len(playLog)][2])
  /\ LET r == synthesize_and_play(is_speaking, outcome) IN
     is_speaking' = IF r.raised THEN except_clears(r.flag) ELSE r.flag
  /\ TtsFinally
  /\ UNCHANGED <<recognized_queue, tts_queue, stop_event, conversation_history,
                 msg_cache, mainPc, cur, is_busy, full_response, token_buffer, sttPc,
                 stopPc, nrecognized, ntokens, putLog, playLog, trace>>
  /\ UNCHANGED <<vts, anim, rec, cls, varsMore>>

\* ----------------------------------------------------------------------- stop
\* stop(): the shutdown signal is set
StopSet ==
  /\ stopPc = "idle"
  /\ mainPc # "init"
  /\ stop_event' = TRUE
  /\ stopPc' = "join"
  /\ UNCHANGED <<recognized_queue, tts_queue, unfinished_tasks, is_speaking,
                 conversation_history, msg_cache, mainPc, cur, is_busy, full_response,
                 token_buffer, ttsPc, sttPc, nrecognized, ntokens, putLog, playLog,
                 trace>>
  /\ UNCHANGED <<vts, anim, rec, cls, varsMore>>

\* stop(): the joins have returned or timed out; stop_animations() sets the
\* animation stop signal (its join of the blink thread has a timeout)
StopAnimations ==
  /\ stopPc = "join"
  /\ stopPc' = "cleanup"
  /\ anim' = [anim EXCEPT !.stop_event = TRUE]
  /\ UNCHANGED <<recognized_queue, tts_queue, unfinished_tasks, stop_event, is_speaking,
                 conversation_history, msg_cache, mainPc, cur, is_busy, full_response,
                 token_buffer, ttsPc, sttPc, nrecognized, ntokens, putLog, playLog,
                 trace>>
  /\ UNCHANGED <<vts, rec, cls, varsMore>>

\* stop(): the components are closed; recognized_queue is emptied by the
\* first get_nowait() loop
StopDrainRecognized ==
  /\ stopPc = "cleanup"
  /\ recognized_queue' = <<>>
  /\ stopPc' = "drain"
  /\ UNCHANGED <<tts_queue, unfinished_tasks, stop_event, is_speaking,
                 conversation_history, msg_cache, mainPc, cur, is_busy, full_response,
                 token_buffer, ttsPc, sttPc, nrecognized, ntokens, putLog, playLog,
                 trace>>
  /\ UNCHANGED <<vts, anim, rec, cls, varsMore>>

\* stop(): tts_queue is emptied by the second get_nowait() loop; stop() returns
StopDrain ==
  /\ stopPc = "drain"
  /\ tts_queue' = <<>>
  /\ stopPc' = "done"
  /\ UNCHANGED <<recognized_queue, unfinished_tasks, stop_event, is_speaking,
                 conversation_history, msg_cache, mainPc, cur, is_busy, full_response,
                 token_buffer, ttsPc, sttPc, nrecognized, ntokens, putLog, playLog,
                 trace>>
  /\ UNCHANGED <<vts, anim, rec, cls, varsMore>>

NextPipe ==
  \/ Start
  \/ \E text \in RecognizedTexts : on_recognition_result(text)
  \/ SttStop
  \/ MainLoop
  \/ MainGet
  \/ MainEmpty
  \/ \E directed \in BOOLEAN : MainClassify(directed)
  \/ MainWait
  \/ MainAddUser
  \/ \E token \in Tokens : MainToken(token)
  \/ MainStreamEnd
  \/ MainStreamError
  \/ TtsLoop
  \/ TtsGet
  \/ TtsEmpty
  \/ \E outcome \in {"blank", "played", "TTSError", "Exception"} : TtsSpeakEnd(outcome)
  \/ StopSet
  \/ StopAnimations
  \/ StopDrainRecognized
  \/ StopDrain

\* ------------------------------------------------------------------ animation
\* AnimationController.__init__ (the blink thread is not started yet)
InitAnim == anim = [stop_event |-> FALSE, blinkPc |-> "init"]

\* a blink thread that never sees its stop signal
blink_stop_ignored(a) == FALSE

\* what the blink thread reads of its stop signal (is_set(), and the result
\* of wait(wait_time))
blink_stop_seen(a) == a.stop_event

\* _blink_thread_func: while not self.stop_event.is_set()
BlinkLoop ==
  /\ anim.blinkPc = "loop"
  /\ anim' = [anim EXCEPT !.blinkPc = IF blink_stop_seen(anim) THEN "done" ELSE "wait"]
  /\ UNCHANGED <<varsPipe, vts, rec, cls, varsMore>>

\* _blink_thread_func: stop_event.wait(wait_time) returns: break when the
\* signal is set, the blink sequence when the time has passed
BlinkWait ==
  /\ anim.blinkPc = "wait"
  /\ anim' = [anim EXCEPT !.blinkPc = IF blink_stop_seen(anim) THEN "done" ELSE "blink"]
  /\ UNCHANGED <<varsPipe, vts, rec, cls, varsMore>>

\* _blink_sequence returns (its exceptions are caught and logged)
BlinkSequence ==
  /\ anim.blinkPc = "blink"
  /\ anim' = [anim EXCEPT !.blinkPc = "loop"]
  /\ UNCHANGED <<varsPipe, vts, rec, cls, varsMore>>

\* =============================================================== control plane
\* VTubeStudioAPI (src/vts/api_helper.py), the threads that run its code and
\* the VTube Studio server behind its sockets.
\*
\* A thread is <<kind, number>>: a caller of the public operations, or the
\* receiver / heartbeat thread started for the n-th socket.  Every thread has
\* a call stack of frames; a frame is a function with the place it has
\* reached (pc) and its locals.  A thread runs the code of its top frame up
\* to the next place where it can wait for, or race with, somebody else:
\* taking the lock, create_connection, joining threads, ws.send, waiting on
\* the response event, ws.recv, the loop tests of the two service threads.

Callers == {<<"c", 1>>, <<"c", 2>>}
CallersDown == Callers \cup {<<"c", 3>>}
Receivers == {<<"rx", g>> : g \in 1..MaxSockets}
Heartbeats == {<<"hb", g>> : g \in 1..MaxSockets}
Threads == CallersDown \cup Receivers \cup Heartbeats
NoThread == <<"none", 0>>

\* a value returned by a call: v is "None", "True", "False" or the
\* messageType of a response, tok and authenticated the authenticationToken
\* and the authenticated flag of its data, why how a wait for a response
\* ended (ghost)
Ret(v) == [v |-> v, tok |-> 0, authenticated |-> FALSE, why |-> ""]
RetWhy(v, why) == [v |-> v, tok |-> 0, authenticated |-> FALSE, why |-> why]

\* a frame: rid, typ, wait and tok are _send_request's request_id, the
\* messageType, wait_response and the token sent; tok is also the token
\* argument of _authenticate_with_token and new_token of _authenticate; prev
\* is _handle_disconnection's prev_state; sock is the socket a blocked recv
\* reads from; why is a ghost
Frame(fn, pc) ==
  [fn |-> fn, pc |-> pc, rid |-> 0, typ |-> "", wait |-> FALSE, tok |-> 0,
   prev |-> "", sock |-> 0, why |-> ""]
RequestFrame(typ, tok, wait) ==
  [Frame("_send_request", "prepare") EXCEPT !.typ = typ, !.tok = tok, !.wait = wait]

NoOp ==
  [kind |-> "", observed |-> "", exhausted |-> FALSE, conn |-> 0, fails |-> 0,
   auths |-> 0, outcome |-> "none"]

\* the state after __init__ (lines 60-93); the token file holds token 1,
\* which the server may or may not still accept
InitVts ==
  \E valid \in {{}, {1}} :
    vts = [state |-> "DISCONNECTED",            \* self.state
           ws |-> 0,                            \* self.ws (0 is None)
           token |-> 1,                         \* self.token (0 is None)
           reconnect_attempts |-> 0,            \* self.reconnect_attempts
           lock_owner |-> NoThread,             \* self._lock (an RLock)
           lock_count |-> 0,
           last_request_id |-> 0,               \* self._last_request_id
           response_data |-> {},                \* self._response_data
           response_event |-> FALSE,            \* self._response_event
           stop_event |-> FALSE,                \* self._stop_event
           receiver_thread |-> NoThread,        \* self._receiver_thread
           heartbeat_thread |-> NoThread,       \* self._heartbeat_thread
           token_file |-> 1,                    \* the token in token_file_path
           stack |-> [t \in Threads |-> <<>>],  \* call stacks
           ret |-> [t \in Threads |-> Ret("None")],
           exc |-> [t \in Threads |-> "none"],  \* the exception in flight
           nreq |-> 0,                          \* request ids generated
           nsock |-> 0,                         \* sockets opened
           nops |-> [t \in CallersDown |-> 0],  \* operations started
           nkills |-> 0,
           nbeats |-> 0,
           nissued |-> 0,
           sockOpen |-> {},                     \* sockets that are up
           inbox |-> [s \in 1..MaxSockets |-> <<>>],  \* responses on the wire
           sessAuth |-> {},                     \* sockets the server has authenticated
           validTokens |-> valid,               \* tokens the server accepts
           opInfo |-> [t \in Threads |-> NoOp], \* ghost: the last operation of a thread
           visited |-> {},                      \* ghost: states since the last DISCONNECTED
           lastReq |-> [foreign |-> FALSE, why |-> ""],  \* ghost: the last wait that ended
           tokReq |-> [sent |-> FALSE, accepted |-> FALSE, reused |-> FALSE, why |-> ""],
           failedRun |-> 0]                     \* ghost: failed reconnections in a row

\* ------------------------------------------------------------ stack machinery
Top(S, t) == S.stack[t][Len(S.stack[t])]
Goto(S, t, pc) == [S EXCEPT !.stack[t][Len(S.stack[t])].pc = pc]
Call(S, t, pc, f) == [S EXCEPT !.stack[t] = Append(Goto(S, t, pc).stack[t], f)]
Return(S, t, r) ==
  [S EXCEPT !.stack[t] = SubSeq(@, 1, Len(@) - 1), !.ret[t] = r, !.exc[t] = "none"]
Raise(S, t, e) ==
  [S EXCEPT !.stack[t] = SubSeq(@, 1, Len(@) - 1), !.ret[t] = Ret("None"), !.exc[t] = e]
\* the thread function returns: the thread is no longer alive
Exit(S, t) ==
  [S EXCEPT !.stack[t] = <<>>, !.exc[t] = "none", !.ret[t] = Ret("None"),
            !.opInfo[t] = NoOp]
is_alive(S, t) == t # NoThread /\ S.stack[t] # <<>>

\* with self._lock: entering and leaving (RLock, re-entrant)
Acquired(S, t) ==
  Goto([S EXCEPT !.lock_owner = t, !.lock_count = @ + 1], t, "locked")
Release(S, t) ==
  [S EXCEPT !.lock_count = @ - 1,
            !.lock_owner = IF S.lock_count = 1 THEN NoThread ELSE @]

\* self.state = v
SetState(S, v) ==
  [S EXCEPT !.state = v,
            !.visited = IF v = "DISCONNECTED" THEN {} ELSE @ \cup {v}]

\* a public operation returns or raises
FinishOp(S, t, outcome) ==
  [S EXCEPT !.stack[t] = <<>>, !.exc[t] = "none", !.ret[t] = Ret("None"),
            !.opInfo[t].outcome = outcome]

\* ------------------------------------------------- the code between two waits
\* Each operator below is one function of VTubeStudioAPI: given the thread
\* whose top frame is in that function at a place where it does not wait,
\* it yields the state after the code up to the next call, return or wait.

\* _clear_request_state
_clear_request_state(S) ==
  [S EXCEPT !.response_data = {}, !.last_request_id = 0, !.response_event = TRUE]

\* a connect that tries create_connection again when it raised
connect_retries(S, t) == Goto(S, t, "create")

\* the except branch of connect (lines 135-139)
connect_failed(S, t) ==
  Return(Release(SetState([S EXCEPT !.ws = 0], "DISCONNECTED"), t), t, Ret("False"))

\* connect
connect(t, S) ==
  LET pc == Top(S, t).pc IN
  IF pc = "locked" THEN
    IF S.state = "AUTHENTICATED" THEN Return(Release(S, t), t, Ret("True"))
    ELSE IF S.state = "DISCONNECTED" THEN Goto(SetState(S, "CONNECTING"), t, "create")
    ELSE Goto(S, t, "auth")
  ELSE IF pc = "auth" THEN
    IF S.state = "CONNECTED"
    THEN Call(S, t, "after_auth", Frame("_authenticate", "start"))
    ELSE Return(Release(S, t), t, Ret("False"))
  ELSE \* after_auth: return self._authenticate()
    Return(Release(S, t), t, Ret(S.ret[t].v))

\* _authenticate
_authenticate(t, S) ==
  LET f == Top(S, t) IN
  IF f.pc = "start" THEN
    IF S.state # "CONNECTED" THEN Return(S, t, Ret("False"))
    ELSE LET S1 == [SetState(S, "AUTHENTICATING") EXCEPT !.opInfo[t].auths = @ + 1] IN
         IF S.token # 0
         THEN Call([S1 EXCEPT !.stack[t][Len(S.stack[t])].tok = S.token], t, "after_tok",
                   [Frame("_authenticate_with_token", "start") EXCEPT !.tok = S.token])
         ELSE Goto(S1, t, "request")
  ELSE IF f.pc = "after_tok" THEN
    IF S.ret[t].v = "True" THEN Return(S, t, Ret("True"))
    ELSE Goto([S EXCEPT !.token = 0, !.stack[t][Len(S.stack[t])].why = S.ret[t].why],
              t, "request")
  ELSE IF f.pc = "request" THEN
    Call(S, t, "after_req", RequestFrame("AuthenticationTokenRequest", 0, TRUE))
  ELSE IF f.pc = "after_req" THEN
    IF S.exc[t] = "none" /\ S.ret[t].v = "AuthenticationTokenResponse"
    THEN Call([S EXCEPT !.stack[t][Len(S.stack[t])].tok = S.ret[t].tok], t, "after_new",
              [Frame("_authenticate_with_token", "start") EXCEPT !.tok = S.ret[t].tok])
    ELSE Return(SetState(S, "CONNECTED"), t, Ret("False"))
  ELSE \* after_new: the token is kept and saved (_save_token)
    IF S.ret[t].v = "True"
    THEN Return([S EXCEPT !.token = f.tok, !.token_file = f.tok], t, Ret("True"))
    ELSE Return(SetState(S, "CONNECTED"), t, Ret("False"))

\* _authenticate_with_token
_authenticate_with_token(t, S) ==
  LET f == Top(S, t) IN
  IF f.pc = "start" THEN
    Call(S, t, "after", RequestFrame("AuthenticationRequest", f.tok, TRUE))
  ELSE IF S.exc[t] # "none" THEN Return(S, t, RetWhy("False", "exc"))
  ELSE IF S.ret[t].v = "AuthenticationResponse" /\ S.ret[t].authenticated
    THEN Return(SetState(S, "AUTHENTICATED"), t, Ret("True"))
  ELSE Return(S, t, RetWhy("False", S.ret[t].why))

\* _send_request after the handler of a failed send: raise VTSError
_send_request(t, S) == Raise(S, t, "VTSError")

\* _send_request before ws.send (lines 471-483): the request gets its id and,
\* when it waits for the response, _last_request_id is set and
\* _response_event cleared
prepare_request(S, t) ==
  LET rid == S.nreq + 1
      S1 == [S EXCEPT !.nreq = rid, !.stack[t][Len(S.stack[t])].rid = rid] IN
  IF Top(S, t).wait
  THEN [S1 EXCEPT !.last_request_id = rid, !.response_event = FALSE]
  ELSE S1

\* _handle_disconnection
_handle_disconnection(t, S) ==
  LET f == Top(S, t) IN
  IF f.pc = "locked" THEN
    LET S1 == [SetState(S, "DISCONNECTED")
                 EXCEPT !.ws = 0, !.stack[t][Len(S.stack[t])].prev = S.state] IN
    IF auto_reconnect /\ ~S.stop_event THEN
      LET S2 == [S1 EXCEPT !.reconnect_attempts = @ + 1] IN
      IF S2.reconnect_attempts <= RECONNECT_MAX_ATTEMPTS
      THEN Call(S2, t, "after_connect", Frame("connect", "lock"))
      ELSE Return(Release(_clear_request_state(S2), t), t, Ret("None"))
    ELSE Return(Release(_clear_request_state(S1), t), t, Ret("None"))
  ELSE \* after_connect
    LET success == S.ret[t].v = "True"
        S1 == [S EXCEPT !.failedRun =
                 IF success THEN 0
                 ELSE IF @ < RECONNECT_MAX_ATTEMPTS THEN @ + 1 ELSE @] IN
    IF success /\ f.prev = "AUTHENTICATED"
    THEN Return(Release(S1, t), t, Ret("None"))
    ELSE Return(Release(_clear_request_state(S1), t), t, Ret("None"))

\* ensure_connected
ensure_connected(t, S) ==
  IF Top(S, t).pc = "locked" THEN
    LET S1 == [S EXCEPT !.opInfo[t].observed = S.state] IN
    IF S.state = "AUTHENTICATED" THEN Return(Release(S1, t), t, Ret("True"))
    ELSE IF S.state = "DISCONNECTED"
      THEN Call(S1, t, "after_connect", Frame("connect", "lock"))
    ELSE Return(Release(S1, t), t, Ret("False"))
  ELSE \* after_connect: return self.connect()
    Return(Release(S, t), t, Ret(S.ret[t].v))

\* inject_parameter, with inject_parameters, inject_mouth_value and
\* inject_eye_blink, which differ from it in the parameters they send
inject_parameter(t, S) ==
  IF Top(S, t).pc = "after_ensure" THEN
    IF S.ret[t].v # "True" THEN FinishOp(S, t, "raised")
    ELSE Call(S, t, "after_send", RequestFrame("InjectParameterDataRequest", 0, TRUE))
  ELSE \* after_send
    IF S.exc[t] # "none" THEN FinishOp(S, t, "False")
    ELSE IF S.ret[t].v = "None" THEN FinishOp(S, t, "False")
    ELSE FinishOp(S, t, "True")

\* get_current_model_info
get_current_model_info(t, S) ==
  IF Top(S, t).pc = "after_ensure" THEN
    IF S.ret[t].v # "True" THEN FinishOp(S, t, "raised")
    ELSE Call(S, t, "after_send", RequestFrame("CurrentModelRequest", 0, TRUE))
  ELSE \* after_send
    IF S.exc[t] # "none" THEN FinishOp(S, t, "raised")
    ELSE IF S.ret[t].v = "None" THEN FinishOp(S, t, "raised")
    ELSE FinishOp(S, t, "value")

\* a caller's connect() returns
call_connect(t, S) == FinishOp(S, t, S.ret[t].v)

\* _receiver_thread_func after its call of _handle_disconnection: break
_receiver_thread_func(t, S) == Exit(S, t)

\* _heartbeat_thread_func after its _send_request: exceptions are dropped
_heartbeat_thread_func(t, S) == Goto([S EXCEPT !.exc[t] = "none"], t, "loop")

\* the thread waits
Blocked(S, t) ==
  \/ S.stack[t] = <<>>
  \/ Top(S, t).pc \in {"create", "join", "prepare", "send", "wait", "loop", "recv", "closed", "state"}
  \/ Top(S, t).pc = "lock" /\ S.lock_owner # t

\* one stretch of code of the top frame
Local(t, S) ==
  LET fn == Top(S, t).fn IN
  IF Top(S, t).pc = "lock" THEN Acquired(S, t)
  ELSE CASE fn = "connect" -> connect(t, S)
         [] fn = "_authenticate" -> _authenticate(t, S)
         [] fn = "_authenticate_with_token" -> _authenticate_with_token(t, S)
         [] fn = "_send_request" -> _send_request(t, S)
         [] fn = "_handle_disconnection" -> _handle_disconnection(t, S)
         [] fn = "ensure_connected" -> ensure_connected(t, S)
         [] fn = "inject_parameter" -> inject_parameter(t, S)
         [] fn = "get_current_model_info" -> get_current_model_info(t, S)
         [] fn = "call_connect" -> call_connect(t, S)
         [] fn = "_receiver_thread_func" -> _receiver_thread_func(t, S)
         [] fn = "_heartbeat_thread_func" -> _heartbeat_thread_func(t, S)

\* the thread runs until it waits
RECURSIVE Run(_, _)
Run(t, S) == IF Blocked(S, t) THEN S ELSE Run(t, Local(t, S))

\* ------------------------------------------------------------------- server
Msg(rid, v, tok, authenticated) ==
  [rid |-> rid, v |-> v, tok |-> tok, authenticated |-> authenticated]

\* the server handles request f arriving on socket sk and puts its response
\* on the wire; grant is its decision on a token request
Server(S, t, sk, f, grant) ==
  LET put(S1, m) == [S1 EXCEPT !.inbox[sk] = Append(@, m)] IN
  IF f.typ = "AuthenticationRequest" THEN
    IF f.tok \in S.validTokens
    THEN put([S EXCEPT !.sessAuth = @ \cup {sk}],
             Msg(f.rid, "AuthenticationResponse", 0, TRUE))
    ELSE put(S, Msg(f.rid, "AuthenticationResponse", 0, FALSE))
  ELSE IF f.typ = "AuthenticationTokenRequest" THEN
    LET below == S.stack[t][Len(S.stack[t]) - 1]
        S1 == [S EXCEPT !.tokReq = [sent |-> TRUE, accepted |-> sk \in S.sessAuth,
                                    reused |-> below.tok > 1, why |-> below.why]] IN
    IF grant /\ S.nissued < MaxIssued
    THEN LET new == S.nissued + 2 IN
         put([S1 EXCEPT !.nissued = @ + 1, !.validTokens = @ \cup {new}],
             Msg(f.rid, "AuthenticationTokenResponse", new, FALSE))
    ELSE put(S1, Msg(f.rid, "APIError", 0, FALSE))
  ELSE IF sk \in S.sessAuth
    THEN put(S, Msg(f.rid, "Response", 0, FALSE))
  ELSE put(S, Msg(f.rid, "APIError", 0, FALSE))

\* ------------------------------------------------------------------ actions
Step(t, S) == vts' = Run(t, S) /\ UNCHANGED <<varsPipe, anim, rec, cls, varsMore>>

At(t, fn, pc) ==
  /\ vts.stack[t] # <<>>
  /\ Top(vts, t).fn = fn
  /\ Top(vts, t).pc = pc

Depth(S, t) ==
  Cardinality({i \in 1..Len(S.stack[t]) : S.stack[t][i].fn = "_handle_disconnection"})

OpKinds == {"inject_parameter", "get_current_model_info", "connect", "close"}

\* a caller thread calls a public operation; one that starts by taking the
\* lock starts when it gets the lock
BeginOp(t, kind, limit) ==
  /\ vts.stack[t] = <<>>
  /\ vts.nops[t] < limit
  /\ LET S0 == [vts EXCEPT !.nops[t] = @ + 1,
                           !.opInfo[t] = [NoOp EXCEPT !.kind = kind, !.outcome = "running",
                              !.exhausted = vts.failedRun >= RECONNECT_MAX_ATTEMPTS]] IN
     IF kind = "close"
     THEN \* close: _stop_threads sets the stop signal and joins
          Step(t, [S0 EXCEPT !.stop_event = TRUE, !.stack[t] = <<Frame("close", "join")>>])
     ELSE /\ vts.lock_owner = NoThread
          /\ IF kind = "connect"
             THEN Step(t, Acquired([S0 EXCEPT !.stack[t] =
                    <<Frame("call_connect", "after_connect"), Frame("connect", "lock")>>], t))
             ELSE Step(t, Acquired([S0 EXCEPT !.stack[t] =
                    <<Frame(kind, "after_ensure"), Frame("ensure_connected", "lock")>>], t))

\* a thread waiting for the lock (in _handle_disconnection) gets it
Acquire(t) ==
  /\ vts.stack[t] # <<>>
  /\ Top(vts, t).pc = "lock"
  /\ vts.lock_owner = NoThread
  /\ Step(t, Acquired(vts, t))

\* connect: create_connection returns a socket or raises; on a socket,
\* _start_threads begins with _stop_threads, which joins the running threads
CreateConnection(t, ok) ==
  /\ At(t, "connect", "create")
  /\ ok => vts.nsock < MaxSockets
  /\ LET S0 == [vts EXCEPT !.opInfo[t].conn = @ + 1] IN
     IF ~ok THEN Step(t, connect_failed(S0, t))
     ELSE LET s == vts.nsock + 1
              S1 == [SetState(S0, "CONNECTED")
                       EXCEPT !.ws = s, !.nsock = s, !.sockOpen = @ \cup {s},
                              !.reconnect_attempts = 0, !.failedRun = 0,
                              !.stop_event = TRUE] IN
          IF is_alive(S1, S1.receiver_thread) /\ S1.receiver_thread = t
          THEN \* join of the current thread: RuntimeError
               Step(t, connect_failed(S1, t))
          ELSE Step(t, Goto(S1, t, "join"))

\* connect: the joins of _stop_threads are over (the threads ended or the
\* joins timed out); _start_threads starts the two threads of this socket
JoinDone(t) ==
  /\ At(t, "connect", "join")
  /\ IF is_alive(vts, vts.heartbeat_thread) /\ vts.heartbeat_thread = t
     THEN Step(t, connect_failed(vts, t))
     ELSE LET rx == <<"rx", vts.nsock>>
              hb == <<"hb", vts.nsock>> IN
          Step(t, Goto([vts EXCEPT
                          !.stop_event = FALSE,
                          !.receiver_thread = rx,
                          !.heartbeat_thread = hb,
                          !.stack[rx] = <<Frame("_receiver_thread_func", "loop")>>,
                          !.stack[hb] = <<Frame("_heartbeat_thread_func", "loop")>>],
                       t, "auth"))

\* _send_request from its start up to self.ws.send(...)
Prepare(t, limit) ==
  /\ At(t, "_send_request", "prepare")
  /\ IF vts.ws = 0 THEN \* if not self.ws: raise VTSError
       Step(t, Raise(vts, t, "VTSError"))
     ELSE /\ vts.nreq < limit
          /\ Step(t, Goto(prepare_request(vts, t), t, "send"))

\* _send_request: self.ws.send(...)
Send(t, grant) ==
  /\ At(t, "_send_request", "send")
  /\ LET f == Top(vts, t)
         sk == vts.ws IN
     IF sk = 0 THEN \* 'NoneType' object has no attribute 'send'
       Step(t, Raise(vts, t, "Error"))
     ELSE IF sk \notin vts.sockOpen THEN \* WebSocketException
       /\ Depth(vts, t) < MaxDepth
       /\ Step(t, Call([vts EXCEPT !.opInfo[t].fails = @ + 1], t, "after_handler",
                       Frame("_handle_disconnection", "lock")))
     ELSE LET S1 == Server(vts, t, sk, f, grant) IN
          IF f.wait THEN Step(t, Goto(S1, t, "wait"))
          ELSE Step(t, Return(S1, t, Ret("None")))

OwnStored(S, rid) == {m \in S.response_data : m.rid = rid}
InFlight(S, rid) ==
  \E s \in S.sockOpen : \E i \in 1..Len(S.inbox[s]) : S.inbox[s][i].rid = rid

\* _send_request: the wait on _response_event ends because the event is set
Wake(t) ==
  /\ At(t, "_send_request", "wait")
  /\ vts.response_event
  /\ LET rid == Top(vts, t).rid
         own == OwnStored(vts, rid) IN
     IF own # {}
     THEN LET m == CHOOSE m \in own : TRUE IN
          Step(t, Return([vts EXCEPT !.response_data = @ \ own,
                            !.lastReq = [foreign |-> m.rid # rid, why |-> "ok"]], t,
                         [v |-> m.v, tok |-> m.tok, authenticated |-> m.authenticated,
                          why |-> "ok"]))
     ELSE LET why == IF InFlight(vts, rid) THEN "early" ELSE "lost" IN
          Step(t, Return([vts EXCEPT !.lastReq = [foreign |-> FALSE, why |-> why]],
                         t, RetWhy("None", why)))

\* _send_request: the wait on _response_event times out
Timeout(t) ==
  /\ At(t, "_send_request", "wait")
  /\ ~vts.response_event
  /\ LET rid == Top(vts, t).rid
         why == IF OwnStored(vts, rid) # {} THEN "late" ELSE "timeout" IN
     Step(t, Return([vts EXCEPT !.lastReq = [foreign |-> FALSE, why |-> why]],
                    t, RetWhy("None", why)))

\* _receiver_thread_func: the loop test; the thread ends or calls recv on
\* the socket that self.ws is now
rx_loop(S, t) ==
  IF S.stop_event \/ S.ws = 0 THEN Exit(S, t)
  ELSE Goto([S EXCEPT !.stack[t][Len(S.stack[t])].sock = S.ws], t, "recv")

\* _receiver_thread_func: the first loop test of a started thread
RxLoop(t) ==
  /\ At(t, "_receiver_thread_func", "loop")
  /\ Step(t, rx_loop(vts, t))

\* _receiver_thread_func: recv returns a message, times out or raises
RxRecv(t) ==
  /\ At(t, "_receiver_thread_func", "recv")
  /\ LET sk == Top(vts, t).sock IN
     IF sk \notin vts.sockOpen THEN
       IF ~vts.stop_event
       THEN Step(t, Call(vts, t, "after_handler", Frame("_handle_disconnection", "lock")))
       ELSE Step(t, Exit(vts, t))
     ELSE IF vts.inbox[sk] # <<>> THEN
       LET m == Head(vts.inbox[sk]) IN
       Step(t, rx_loop([vts EXCEPT
                          !.inbox[sk] = Tail(@),
                          !.response_data = {x \in @ : x.rid # m.rid} \cup {m},
                          !.response_event = IF m.rid = vts.last_request_id THEN TRUE ELSE @],
                       t))
     ELSE \* WebSocketTimeoutException: continue
       /\ vts.stop_event \/ vts.ws # sk
       /\ Step(t, rx_loop(vts, t))

\* _heartbeat_thread_func: a heartbeat is due
HbBeat(t) ==
  /\ At(t, "_heartbeat_thread_func", "loop")
  /\ ~vts.stop_event
  /\ vts.state = "AUTHENTICATED"
  /\ vts.nbeats < MaxBeats
  /\ Step(t, Call([vts EXCEPT !.nbeats = @ + 1], t, "after_send",
                  RequestFrame("APIStateRequest", 0, FALSE)))

\* _heartbeat_thread_func: the stop signal ends the loop
HbExit(t) ==
  /\ At(t, "_heartbeat_thread_func", "loop")
  /\ vts.stop_event
  /\ Step(t, Exit(vts, t))

\* close: the joins of _stop_threads are over; self.ws.close()
CloseJoined(t) ==
  /\ At(t, "close", "join")
  /\ LET sk == vts.ws
         S1 == [vts EXCEPT !.receiver_thread = NoThread, !.heartbeat_thread = NoThread] IN
     IF sk = 0 THEN Step(t, Goto(S1, t, "state"))
     ELSE Step(t, Goto([S1 EXCEPT !.sockOpen = @ \ {sk}, !.sessAuth = @ \ {sk},
                                  !.inbox[sk] = <<>>], t, "closed"))

\* close: self.ws = None
CloseWs(t) ==
  /\ At(t, "close", "closed")
  /\ Step(t, Goto([vts EXCEPT !.ws = 0], t, "state"))

\* close: self.state = DISCONNECTED
CloseState(t) ==
  /\ At(t, "close", "state")
  /\ Step(t, FinishOp(SetState(vts, "DISCONNECTED"), t, "None"))

\* the network or the server drops a socket
KillSocket(s) ==
  /\ s \in vts.sockOpen
  /\ vts.nkills < MaxKills
  /\ vts' = [vts EXCEPT !.nkills = @ + 1, !.sockOpen = @ \ {s}, !.sessAuth = @ \ {s},
                        !.inbox[s] = <<>>]
  /\ UNCHANGED <<varsPipe, anim, rec, cls, varsMore>>

\* two callers, each calling one public operation; the sockets stay up
\* unless close() closes them, and no heartbeat falls due
NextVts ==
  \/ \E t \in Callers, kind \in OpKinds : BeginOp(t, kind, MaxOps)
  \/ \E t \in Threads : Acquire(t)
  \/ \E t \in Threads, ok \in BOOLEAN : CreateConnection(t, ok)
  \/ \E t \in Threads : JoinDone(t)
  \/ \E t \in Threads : Prepare(t, MaxReq)
  \/ \E t \in Threads, grant \in BOOLEAN : Send(t, grant)
  \/ \E t \in Threads : Wake(t)
  \/ \E t \in Threads : Timeout(t)
  \/ \E t \in Receivers : RxLoop(t)
  \/ \E t \in Receivers : RxRecv(t)
  \/ \E t \in Heartbeats : HbExit(t)
  \/ \E t \in Callers : CloseJoined(t)
  \/ \E t \in Callers : CloseWs(t)
  \/ \E t \in Callers : CloseState(t)

\* two callers of the injection operations while the network drops sockets
NextDrop ==
  \/ \E t \in Callers : BeginOp(t, "inject_parameter", 1)
  \/ \E t \in Threads : Acquire(t)
  \/ \E t \in Threads, ok \in BOOLEAN : CreateConnection(t, ok)
  \/ \E t \in Threads : JoinDone(t)
  \/ \E t \in Threads : Prepare(t, MaxReq)
  \/ \E t \in Threads, grant \in BOOLEAN : Send(t, grant)
  \/ \E t \in Threads : Wake(t)
  \/ \E t \in Threads : Timeout(t)
  \/ \E t \in Receivers : RxLoop(t)
  \/ \E t \in Receivers : RxRecv(t)
  \/ \E t \in Heartbeats : HbBeat(t)
  \/ \E t \in Heartbeats : HbExit(t)
  \/ \E s \in 1..MaxSockets : KillSocket(s)

\* three callers of the injection operations, the second and then the third
\* calling once the first has authenticated, and the first calling again
\* when RECONNECT_MAX_ATTEMPTS reconnections in a row have failed; the
\* server accepts one socket, answers on it until the socket drops and is
\* down from then on
BeginOpDown(t) ==
  /\ t # <<"c", 1>> => vts.state = "AUTHENTICATED"
  /\ t = <<"c", 3>> => vts.nops[<<"c", 2>>] > 0
  /\ vts.nops[t] > 0 => vts.failedRun >= RECONNECT_MAX_ATTEMPTS
  /\ BeginOp(t, "inject_parameter", IF t = <<"c", 1>> THEN 2 ELSE 1)

CreateConnectionDown(t, ok) ==
  /\ ok => vts.nsock = 0
  /\ CreateConnection(t, ok)

NextDown ==
  \/ \E t \in CallersDown : BeginOpDown(t)
  \/ \E t \in Threads : Acquire(t)
  \/ \E t \in Threads, ok \in BOOLEAN : CreateConnectionDown(t, ok)
  \/ \E t \in Threads : JoinDone(t)
  \/ \E t \in Threads : Prepare(t, MaxReqDown)
  \/ \E t \in Threads, grant \in BOOLEAN : Send(t, grant)
  \/ \E t \in Threads : Wake(t)
  \/ \E t \in Receivers : RxLoop(t)
  \/ \E t \in Receivers : RxRecv(t)
  \/ \E t \in Heartbeats : HbBeat(t)
  \/ \E s \in 1..MaxSockets : KillSocket(s)

\* one caller connects and another injects once the client is
\* authenticated; the network then drops the socket, once, and no public
\* operation is called from then on; the server accepts every connection
\* and answers the requests of a reconnecting receiver thread in time;
\* heartbeats fall due
BeginOpRecon(t) ==
  /\ vts.nkills = 0
  /\ t # <<"c", 1>> => vts.state = "AUTHENTICATED"
  /\ BeginOp(t, IF t = <<"c", 1>> THEN "connect" ELSE "inject_parameter", 1)

KillOnce(s) ==
  /\ vts.state = "AUTHENTICATED"
  /\ KillSocket(s)

NextRecon ==
  \/ \E t \in Callers : BeginOpRecon(t)
  \/ \E t \in Threads : Acquire(t)
  \/ \E t \in Threads : CreateConnection(t, TRUE)
  \/ \E t \in Threads : JoinDone(t)
  \/ \E t \in Threads : Prepare(t, MaxReq)
  \/ \E t \in Threads, grant \in BOOLEAN : Send(t, grant)
  \/ \E t \in Threads : Wake(t)
  \/ \E t \in Callers : Timeout(t)
  \/ \E t \in Receivers : RxLoop(t)
  \/ \E t \in Receivers : RxRecv(t)
  \/ \E t \in Heartbeats : HbBeat(t)
  \/ \E t \in Heartbeats : HbExit(t)
  \/ \E s \in 1..MaxSockets : KillOnce(s)

\* the operation a caller of the token scenario calls next: one thread
\* calls connect, close and connect, the other inject_parameter
TokKind(t) ==
  IF t = <<"c", 1>>
  THEN (IF vts.nops[t] = 1 THEN "close" ELSE "connect")
  ELSE "inject_parameter"

NextTok ==
  \/ \E t \in Callers : BeginOp(t, TokKind(t), IF t = <<"c", 1>> THEN 3 ELSE 1)
  \/ \E t \in Threads : Acquire(t)
  \/ \E t \in Threads, ok \in BOOLEAN : CreateConnection(t, ok)
  \/ \E t \in Threads : JoinDone(t)
  \/ \E t \in Threads : Prepare(t, MaxReqTok)
  \/ \E t \in Threads, grant \in BOOLEAN : Send(t, grant)
  \/ \E t \in Threads : Wake(t)
  \/ \E t \in Threads : Timeout(t)
  \/ \E t \in Receivers : RxLoop(t)
  \/ \E t \in Receivers : RxRecv(t)
  \/ \E t \in Heartbeats : HbExit(t)
  \/ \E t \in Callers : CloseJoined(t)
  \/ \E t \in Callers : CloseWs(t)
  \/ \E t \in Callers : CloseState(t)

\* ------------------------------------------------------------------ threads
vars == <<varsPipe, vts, anim, rec, cls, varsMore>>

\* the threads of a started pipeline, each as the steps it can take, with one
\* utterance text and one reply token
MainStep ==
  \/ MainLoop
  \/ MainGet
  \/ MainEmpty
  \/ \E directed \in BOOLEAN : MainClassify(directed)
  \/ MainWait
  \/ MainAddUser
  \/ MainToken(<<".">>)
  \/ MainStreamEnd
  \/ MainStreamError

TtsStep ==
  \/ TtsLoop
  \/ TtsGet
  \/ TtsEmpty
  \/ \E outcome \in {"blank", "played", "TTSError", "Exception"} : TtsSpeakEnd(outcome)

StopStep ==
  \/ StopAnimations
  \/ StopDrainRecognized
  \/ StopDrain

BlinkStep ==
  \/ BlinkLoop
  \/ BlinkWait
  \/ BlinkSequence

NextStop ==
  \/ Start
  \/ on_recognition_result(<<"q">>)
  \/ SttStop
  \/ MainStep
  \/ TtsStep
  \/ StopSet
  \/ StopStep
  \/ BlinkStep

\* ----------------------------------------------------------------- recogniser
\* SpeechRecognizer (src/stt/recorder.py).  rec.pc is the position of the
\* recognition thread, rec.stopPc the position of a caller inside stop().
\* rec.seen, rec.begun and rec.late are history: the thread's wait() has
\* returned True, the recorder.text() call in progress began after that, and
\* the number of texts delivered from such calls.

\* SpeechRecognizer.__init__'s default max_retries
max_retries == 3

\* what one recorder.text() call returns
Heard == {<<"q">>, <<" ", "q", " ">>, <<" ">>, <<>>}

InitRec ==
  rec = [pc |-> "init", stopPc |-> "idle", stop_event |-> FALSE, is_running |-> FALSE,
         is_recording |-> FALSE, retry_count |-> 0, text_queue |-> <<>>,
         seen |-> FALSE, begun |-> FALSE, late |-> 0]

\* SpeechRecognizer.start(): the recognition thread is started
RecStart ==
  /\ rec.pc = "init"
  /\ ~rec.is_running
  /\ rec' = [rec EXCEPT !.is_running = TRUE, !.stop_event = FALSE, !.pc = "enter"]
  /\ UNCHANGED <<varsPipe, vts, anim, cls, varsMore>>

\* SpeechRecognizer.stop() up to the join
RecStopSet ==
  /\ rec.stopPc = "idle"
  /\ rec.is_running
  /\ rec' = [rec EXCEPT !.stop_event = TRUE, !.stopPc = "join"]
  /\ UNCHANGED <<varsPipe, vts, anim, cls, varsMore>>

\* SpeechRecognizer.stop(): join(timeout=2.0) returns, with the thread ended
\* or not
RecStopJoin ==
  /\ rec.stopPc = "join"
  /\ rec' = [rec EXCEPT !.is_running = FALSE, !.stopPc = "done"]
  /\ UNCHANGED <<varsPipe, vts, anim, cls, varsMore>>

\* _recognition_thread_func: entering the recorder
RecEnter ==
  /\ rec.pc = "enter"
  /\ rec' = [rec EXCEPT !.is_recording = TRUE, !.pc = "outer"]
  /\ UNCHANGED <<varsPipe, vts, anim, cls, varsMore>>

\* _recognition_thread_func: the test of the outer loop; the finally block
\* when it fails
RecOuter ==
  /\ rec.pc = "outer"
  /\ rec' = IF rec.stop_event
            THEN [rec EXCEPT !.is_recording = FALSE, !.pc = "done"]
            ELSE [rec EXCEPT !.retry_count = 0, !.pc = "inner"]
  /\ UNCHANGED <<varsPipe, vts, anim, cls, varsMore>>

\* _recognition_thread_func: the test of the retry loop, and the call of
\* recorder.text() when it holds
RecInner ==
  /\ rec.pc = "inner"
  /\ rec' = IF rec.retry_count < max_retries
            THEN [rec EXCEPT !.pc = "text", !.begun = rec.seen]
            ELSE [rec EXCEPT !.pc = "outer"]
  /\ UNCHANGED <<varsPipe, vts, anim, cls, varsMore>>

\* _process_result
rec_process_result(r, text) ==
  IF strip(text) = <<>> THEN r
  ELSE [r EXCEPT !.text_queue = Append(r.text_queue, strip(text)),
                 !.late = r.late + (IF r.begun THEN 1 ELSE 0)]

\* _recognition_thread_func: recorder.text() returns result
RecText(result) ==
  /\ rec.pc = "text"
  /\ strip(result) # <<>> => Len(rec.text_queue) < MaxHeard
  /\ rec' = [rec_process_result(rec, result) EXCEPT !.pc = "wait"]
  /\ UNCHANGED <<varsPipe, vts, anim, cls, varsMore>>

\* _recognition_thread_func: recorder.text() raises
RecTextError ==
  /\ rec.pc = "text"
  /\ rec' = [rec EXCEPT !.retry_count = rec.retry_count + 1, !.pc = "inner"]
  /\ UNCHANGED <<varsPipe, vts, anim, cls, varsMore>>

\* the value of stop_event.wait(0.1)
wait_result(r) == r.stop_event

\* _recognition_thread_func: "if not self.stop_event.wait(0.1): break"
RecWait ==
  /\ rec.pc = "wait"
  /\ rec' = IF ~wait_result(rec)
            THEN [rec EXCEPT !.pc = "outer"]
            ELSE [rec EXCEPT !.pc = "inner", !.seen = TRUE]
  /\ UNCHANGED <<varsPipe, vts, anim, cls, varsMore>>

RecThreadStep ==
  \/ RecEnter
  \/ RecOuter
  \/ RecInner
  \/ \E result \in Heard : RecText(result)
  \/ RecTextError
  \/ RecWait

NextRec ==
  \/ RecStart
  \/ RecStopSet
  \/ RecStopJoin
  \/ RecThreadStep

\* ----------------------------------------------------------------- classifier
\* SpeechClassifier (src/llm/classifier.py).  cls.cache is the OrderedDict
\* as the sequence of its entries, oldest first; cls.now is time.time();
\* cls.log is history: one record per call of is_directed_to_ai.

\* SpeechClassifier.__init__'s direct_keywords
direct_keywords == {<<"A">>}

\* the interrogatives of the question pattern, one string per syllable
interrogatives ==
  {<<"mwo", "ji">>, <<"mwo", "ya">>, <<"wae">>, <<"eon", "je">>, <<"eo", "di">>, <<"nu", "gu">>}

\* the length below which a question counts as directed
question_max_len == 15

upper_char(c) == CASE c = "y" -> "Y" [] c = "e" -> "E" [] c = "s" -> "S" [] OTHER -> c

\* str.upper()
upper(s) == [i \in 1..Len(s) |-> upper_char(s[i])]

\* sub in s
contains(s, sub) ==
  \E i \in 1..(Len(s) - Len(sub) + 1) : SubSeq(s, i, i + Len(sub) - 1) = sub

\* the same search with letters compared as written
keyword_search_exact(text) == \E kw \in direct_keywords : contains(text, kw)

\* keyword_pattern.search(text), the pattern compiled with re.IGNORECASE
keyword_search(text) == \E kw \in direct_keywords : contains(lower(text), lower(kw))

\* re.search(r'\?$|...\?', text): a question mark at the end of the text or
\* before its final newline, or one of the interrogatives followed by one
question_search(text) ==
  \/ text # <<>> /\ text[Len(text)] = "?"
  \/ Len(text) > 1 /\ text[Len(text)] = "\n" /\ text[Len(text) - 1] = "?"
  \/ \E w \in interrogatives : contains(text, w \o <<"?">>)

\* the digest of the trimmed text, upper and lower case kept apart
_get_text_hash_cased(text) == strip(text)

\* _get_text_hash: the digest of the normalised text, which tells all the
\* normalised texts apart
_get_text_hash(text) == lower(strip(text))

cache_keys(c) == {c[i].key : i \in 1..Len(c)}

cache_get(c, key) == c[CHOOSE i \in 1..Len(c) : c[i].key = key]

\* del cache[key]
cache_del(c, key) == SelectSeq(c, LAMBDA e : e.key # key)

\* an entry that keeps its place when it is looked up
keep_place(c, key) == c

\* OrderedDict.move_to_end(key)
move_to_end(c, key) == Append(cache_del(c, key), cache_get(c, key))

\* _check_cache where an entry lives less than cache_ttl
_check_cache_strict(c, text_hash, now) ==
  IF text_hash \in cache_keys(c)
  THEN LET e == cache_get(c, text_hash) IN
       IF now - e.timestamp < cache_ttl
       THEN [found |-> TRUE, result |-> e.result, cache |-> move_to_end(c, text_hash)]
       ELSE [found |-> FALSE, result |-> FALSE, cache |-> cache_del(c, text_hash)]
  ELSE [found |-> FALSE, result |-> FALSE, cache |-> c]
\* _check_cache
_check_cache(c, text_hash, now) ==
  IF text_hash \in cache_keys(c)
  THEN LET e == cache_get(c, text_hash) IN
       IF now - e.timestamp <= cache_ttl
       THEN [found |-> TRUE, result |-> e.result, cache |-> move_to_end(c, text_hash)]
       ELSE [found |-> FALSE, result |-> FALSE, cache |-> cache_del(c, text_hash)]
  ELSE [found |-> FALSE, result |-> FALSE, cache |-> c]

\* cache[key] = (result, timestamp)
cache_set(c, key, result, now) ==
  IF key \in cache_keys(c)
  THEN [i \in 1..Len(c) |->
          IF c[i].key = key THEN [key |-> key, result |-> result, timestamp |-> now] ELSE c[i]]
  ELSE Append(c, [key |-> key, result |-> result, timestamp |-> now])

\* _update_cache without the size limit
_update_cache_unlimited(c, text_hash, result, now) == cache_set(c, text_hash, result, now)

\* _update_cache
_update_cache(c, text_hash, result, now) ==
  cache_set(IF Len(c) >= cache_size THEN Tail(c) ELSE c, text_hash, result, now)

\* the result when the call of the conversational service raises: the
\* other classification
fallback_failed_directed == TRUE

\* the result when the call of the conversational service raises
fallback_failed == FALSE

\* is_directed_to_ai(text) at time now, where a call of the conversational
\* service takes d and answers reply: the result, how it was found, the
\* cache and the clock afterwards, whether the result was stored, the size of
\* the cache before that and the key evicted for it (<<>> for none), whether
\* the lookup removed an entry
is_directed_to_ai(c, text, reply, now, d) ==
  LET text_hash == _get_text_hash(text)
      chk == _check_cache(c, text_hash, now)
      out(how, result, cache, t, stored) ==
        [how |-> how, result |-> result, cache |-> cache, now |-> t, stored |-> stored,
         size |-> Len(chk.cache),
         evicted |-> IF stored /\ Len(chk.cache) >= cache_size THEN Head(chk.cache).key ELSE <<>>,
         removed |-> text_hash \in cache_keys(c) /\ text_hash \notin cache_keys(chk.cache)]
  IN
  IF strip(text) = <<>> THEN out("empty", FALSE, c, now, FALSE)
  ELSE IF chk.found THEN out("hit", chk.result, chk.cache, now, FALSE)
  ELSE IF keyword_search(text)
  THEN out("keyword", TRUE, _update_cache(chk.cache, text_hash, TRUE, now), now, TRUE)
  ELSE IF question_search(text) /\ Len(text) < question_max_len
  THEN out("question", TRUE, _update_cache(chk.cache, text_hash, TRUE, now), now, TRUE)
  ELSE IF reply.ok
  THEN LET result == contains(upper(strip(reply.content)), <<"Y", "E", "S">>) IN
       out("llm", result, _update_cache(chk.cache, text_hash, result, now + d), now + d, TRUE)
  ELSE out("error", fallback_failed, chk.cache, now + d, FALSE)

\* the texts classified
Texts ==
  {<<"a">>, <<"A", " ">>, <<"x">>, <<"X">>, <<"x", "?">>, <<"x", "?", " ">>, <<" ">>}

\* what a call of the conversational service does
Replies ==
  {[ok |-> TRUE, content |-> <<"Y", "E", "S">>], [ok |-> TRUE, content |-> <<" ", "y", "e", "s", ".">>],
   [ok |-> TRUE, content |-> <<"N", "O">>], [ok |-> FALSE, content |-> <<>>]}

InitCls == cls = [cache |-> <<>>, now |-> 0, log |-> <<>>]

\* one call of is_directed_to_ai, of at most limit in a run
IsDirectedToAiOf(text, reply, d, limit) ==
  /\ Len(cls.log) < limit
  /\ cls.now + d <= MaxTime
  /\ LET r == is_directed_to_ai(cls.cache, text, reply, cls.now, d) IN
     cls' = [cache |-> r.cache, now |-> r.now,
             log |-> Append(cls.log, [text |-> text, t |-> cls.now, how |-> r.how,
                                      result |-> r.result, stored |-> r.stored,
                                      T |-> r.now, size |-> r.size,
                                      evicted |-> r.evicted, removed |-> r.removed])]
  /\ UNCHANGED <<varsPipe, vts, anim, rec, varsMore>>

\* time passes between calls
ClsTick ==
  /\ cls.now < MaxTime
  /\ cls' = [cls EXCEPT !.now = cls.now + 1]
  /\ UNCHANGED <<varsPipe, vts, anim, rec, varsMore>>

IsDirectedToAi(text, reply, d) == IsDirectedToAiOf(text, reply, d, MaxCalls)

NextCls ==
  \/ \E text \in Texts, reply \in Replies, d \in 0..MaxDelay : IsDirectedToAi(text, reply, d)
  \/ ClsTick

\* three texts with different keys, classified by keyword, by the question
\* pattern and by the conversational service, which answers at once
LruTexts == {<<"a">>, <<"x", "?">>, <<"x">>}

NextLru ==
  \/ \E text \in LruTexts :
       IsDirectedToAiOf(text, [ok |-> TRUE, content |-> <<"N", "O">>], 0, MaxLruCalls)
  \/ ClsTick

\* ------------------------------------------------------------ specifications
\* ------------------------------------------------------- segmenter, one call
SegChars == {"a", " ", "."}

SegTexts == UNION {[1..n -> SegChars] : n \in 0..MaxLen}

\* no call of split_text_into_chunks under way
InitSeg == seg = [pc |-> "idle", text |-> <<>>, max_size |-> 1, chunks |-> <<>>]

\* split_text_into_chunks(text, max_size) returns
SegSplit ==
  /\ seg.pc = "called"
  /\ seg' = [seg EXCEPT !.pc = "returned",
                        !.chunks = split_text_into_chunks(seg.text, seg.max_size)]
  /\ UNCHANGED <<varsPipe, vts, anim, rec, cls, chat, blink, tts>>

NextSeg == SegSplit

\* "".join(chunks)
RECURSIVE concat(_)
concat(chunks) == IF chunks = <<>> THEN <<>> ELSE Head(chunks) \o concat(Tail(chunks))


\* -------------------------------------------------------- the chat session
\* OllamaChat (src/llm/chat.py) called directly.  chat.appended is history:
\* the messages the calls appended, in order, each with the kind of call;
\* chat.sent is the message list of the last stream_response with the number
\* of messages appended before it; chat.last is the last add_user_message
\* call, its argument and what it returned.

\* OllamaChat.system_message
system_message == [role |-> "system", content |-> <<"persona">>]

\* stream_response: the message list handed to the conversational service
full_history(h) == <<system_message>> \o h

InitChat ==
  chat = [appended |-> <<>>, sent |-> <<>>, sentAt |-> 0,
          last |-> [m |-> <<>>, ret |-> FALSE]]

UserTexts == {<<"q">>, <<"Q", " ">>, <<" ">>}
AssistantTexts == {<<"a">>, <<" ">>}
BackgroundTexts == {<<"q">>}

Digits == <<"1", "2", "3", "4", "5", "6", "7", "8", "9", "10", "11", "12", "13", "14">>

\* the n-th of the distinct user messages, as written and in capitals with
\* whitespace
Numbered(n) ==
  IF n \in {1, 2, msg_cache_maxlen + 1}
  THEN {<<"q", Digits[n]>>, <<" ", "Q", Digits[n], " ">>}
  ELSE {<<"q", Digits[n]>>}

\* the normalised user messages accepted so far, in order
Accepted(log) ==
  LET u == SelectSeq(log, LAMBDA e : e.kind = "user") IN
  [i \in 1..Len(u) |-> lower(strip(u[i].msg.content))]

pipeOnly == <<recognized_queue, tts_queue, unfinished_tasks, stop_event, is_speaking,
              mainPc, cur, is_busy, full_response, token_buffer, ttsPc, sttPc, stopPc,
              nrecognized, ntokens, putLog, playLog, trace>>

\* add_user_message(message)
ChatAddUser(message, limit) ==
  /\ Len(chat.appended) < limit
  /\ LET r == add_user_message(conversation_history, msg_cache, message) IN
     /\ conversation_history' = r[1]
     /\ msg_cache' = r[2]
     /\ chat' = [chat EXCEPT
          !.appended = IF r[3]
                       THEN Append(@, [kind |-> "user",
                                       msg |-> [role |-> "user", content |-> message]])
                       ELSE @,
          !.last = [m |-> message, ret |-> r[3]]]
  /\ UNCHANGED <<pipeOnly, vts, anim, rec, cls, seg, blink, tts>>

\* add_assistant_message(message)
ChatAddAssistant(message) ==
  /\ Len(chat.appended) < MaxAppends
  /\ conversation_history' = add_assistant_message(conversation_history, message)
  /\ chat' = [chat EXCEPT
       !.appended = IF strip(message) # <<>>
                    THEN Append(@, [kind |-> "assistant",
                                    msg |-> [role |-> "assistant", content |-> message]])
                    ELSE @]
  /\ UNCHANGED <<msg_cache, pipeOnly, vts, anim, rec, cls, seg, blink, tts>>

\* add_background_message(message)
ChatAddBackground(message) ==
  /\ Len(chat.appended) < MaxAppends
  /\ conversation_history' = add_background_message(conversation_history, message)
  /\ chat' = [chat EXCEPT
       !.appended = IF strip(message) # <<>>
                    THEN Append(@, [kind |-> "background",
                                    msg |-> [role |-> "user", content |-> BG_TAG \o message]])
                    ELSE @]
  /\ UNCHANGED <<msg_cache, pipeOnly, vts, anim, rec, cls, seg, blink, tts>>

\* stream_response(): the request is made
ChatStream ==
  /\ chat.sentAt < Len(chat.appended)
  /\ chat' = [chat EXCEPT !.sent = full_history(conversation_history),
                          !.sentAt = Len(chat.appended)]
  /\ UNCHANGED <<varsPipe, vts, anim, rec, cls, seg, blink, tts>>

NextChat ==
  \/ \E m \in UserTexts : ChatAddUser(m, MaxAppends)
  \/ \E m \in AssistantTexts : ChatAddAssistant(m)
  \/ \E m \in BackgroundTexts : ChatAddBackground(m)
  \/ ChatStream

\* user messages only: a new one, or any one seen before
ChatAddNumbered ==
  \E n \in 1..(Len(chat.appended) + 1) : \E m \in Numbered(n) : ChatAddUser(m, MaxDistinct)

ChatAddBlank == \E m \in {<<>>, <<" ">>} : ChatAddUser(m, MaxDistinct)

NextDup ==
  \/ ChatAddNumbered
  \/ ChatAddBlank

\* ------------------------------------------------------- the blink sequence
\* AnimationController._blink_sequence (src/vts/animation.py) and
\* VTubeStudioAPI.inject_eye_blink (src/vts/api_helper.py).  Values are in
\* tenths: 10 is 1.0.  blink.log is history: the parameter values
\* transmitted, in order; blink.start is its length when the blink began.

\* max(0.0, min(1.0, v))
clamp(v) == IF v < 0 THEN 0 ELSE IF v > 10 THEN 10 ELSE v

\* inject_eye_blink: the parameter values handed to inject_parameters
eye_parameters(left, right) ==
  [EyeOpenLeft |-> 10 - clamp(left), EyeOpenRight |-> 10 - clamp(right)]

\* the arguments of the three calls of _blink_sequence, in order
blink_steps == <<0, 3, 10>>

InitBlink == blink = [pc |-> 0, start |-> 0, nblinks |-> 0, log |-> <<>>]

\* _blink_thread_func: the wait is over and _blink_sequence is entered
BlinkBegin ==
  /\ blink.pc = 0
  /\ blink.nblinks < MaxBlinks
  /\ blink' = [blink EXCEPT !.pc = 1, !.start = Len(blink.log), !.nblinks = @ + 1]
  /\ UNCHANGED <<varsPipe, vts, anim, rec, cls, seg, chat, tts>>

\* one inject_eye_blink call of _blink_sequence.  "sent": the request is
\* transmitted (whether or not its response arrives in time); "unsent":
\* _send_request raises and inject_parameters returns False; "raise":
\* ensure_connected() is false, VTSError ends the sequence.
BlinkInject(outcome) ==
  /\ blink.pc \in 1..3
  /\ blink' = [blink EXCEPT
       !.pc = IF outcome = "raise" THEN 5 ELSE IF blink.pc = 3 THEN 4 ELSE blink.pc + 1,
       !.log = IF outcome = "sent"
               THEN Append(@, eye_parameters(blink_steps[blink.pc], blink_steps[blink.pc]))
               ELSE @]
  /\ UNCHANGED <<varsPipe, vts, anim, rec, cls, seg, chat, tts>>

\* _blink_sequence returns to the loop of _blink_thread_func
BlinkEnd ==
  /\ blink.pc \in {4, 5}
  /\ blink.nblinks < MaxBlinks
  /\ blink' = [blink EXCEPT !.pc = 0]
  /\ UNCHANGED <<varsPipe, vts, anim, rec, cls, seg, chat, tts>>

NextBlink ==
  \/ BlinkBegin
  \/ \E o \in {"sent", "unsent", "raise"} : BlinkInject(o)
  \/ BlinkEnd

\* ------------------------------------------------------------ audio playback
\* TTSManager.play_audio (src/tts/synthesizer.py).  tts.client is the vts_api
\* argument, tts.stream the output stream of the call ("none" before it is
\* opened); tts.written and tts.mouth are history: the chunks written to
\* the audio stream and the mouth values forwarded to the client, in order.

\* vts_api=None
None == [none |-> TRUE]

\* a VTubeStudioAPI (src/vts/api_helper.py) as play_audio sees it: the state
\* variables of __init__
VTubeStudioAPI(state) == [state |-> state, auto_reconnect |-> TRUE]

Clients ==
  {None} \cup {VTubeStudioAPI(st) : st \in {"DISCONNECTED", "CONNECTING", "AUTHENTICATED"}}

\* getattr(vts_api, 'authenticated', False)
getattr_authenticated(c) ==
  IF "authenticated" \in DOMAIN c THEN c.authenticated ELSE FALSE

\* `vts_api and getattr(vts_api, 'authenticated', False)`
mouth_linked(c) == c # None /\ getattr_authenticated(c)

InitTts ==
  tts = [pc |-> "idle", client |-> None, frames |-> 0, nplays |-> 0,
         stream |-> "none", written |-> <<>>, mouth |-> <<>>]

\* play_audio(audio_chunks, ..., vts_api): the stream is opened, or
\* pyaudio_instance.open raises
TtsPlay(c, n, opened) ==
  /\ tts.pc \in {"idle", "done", "error"}
  /\ tts.nplays < MaxPlays
  /\ tts' = [pc |-> IF opened THEN "playing" ELSE "error",
             client |-> c, frames |-> n, nplays |-> tts.nplays + 1,
             stream |-> IF opened THEN "open" ELSE "none",
             written |-> <<>>, mouth |-> <<>>]
  /\ UNCHANGED <<varsPipe, vts, anim, rec, cls, seg, chat, blink>>

\* one turn of the loop over audio_chunks: an empty chunk is skipped, any
\* other is written and, when the client is linked and the update interval
\* has passed, a mouth value is forwarded; the write may raise
TtsChunk(chunk, due, ok) ==
  /\ tts.pc = "playing"
  /\ tts.frames > 0
  /\ tts' = IF chunk = 0 THEN [tts EXCEPT !.frames = @ - 1]
            ELSE IF ~ok THEN [tts EXCEPT !.pc = "error"]
            ELSE [tts EXCEPT !.frames = @ - 1,
                             !.written = Append(@, chunk),
                             !.mouth = IF mouth_linked(tts.client) /\ due
                                       THEN Append(@, chunk) ELSE @]
  /\ UNCHANGED <<varsPipe, vts, anim, rec, cls, seg, chat, blink>>

\* after the last chunk: the stream is closed and, when the client is
\* linked, the mouth value 0.0 is forwarded
TtsFinish ==
  /\ tts.pc = "playing"
  /\ tts.frames = 0
  /\ tts' = [tts EXCEPT !.pc = "done",
                        !.stream = "closed",
                        !.mouth = IF mouth_linked(tts.client) THEN Append(@, 0) ELSE @]
  /\ UNCHANGED <<varsPipe, vts, anim, rec, cls, seg, chat, blink>>

NextTts ==
  \/ \E c \in Clients : \E n \in 1..MaxFrames : \E opened \in BOOLEAN : TtsPlay(c, n, opened)
  \/ \E chunk \in {0, 2, 7} : \E due, ok \in BOOLEAN : TtsChunk(chunk, due, ok)
  \/ TtsFinish

InitRest == InitAnim /\ InitRec /\ InitCls /\ InitSeg /\ InitChat /\ InitBlink /\ InitTts

\* the process after construction: the server may or may not still accept
\* the token stored in the token file
Init == InitPipe /\ InitVts /\ InitRest

\* ... the stored token is accepted
InitAccepted == InitPipe /\ InitVts /\ InitRest /\ vts.validTokens = {1}

\* ... the stored token is no longer accepted
InitRejected == InitPipe /\ InitVts /\ InitRest /\ vts.validTokens = {}

\* a call of split_text_into_chunks with any text and any max_size
InitSplit ==
  /\ InitPipe /\ InitVts /\ vts.validTokens = {1}
  /\ InitAnim /\ InitRec /\ InitCls /\ InitChat /\ InitBlink /\ InitTts
  /\ seg \in [pc : {"called"}, text : SegTexts, max_size : 1..MaxSize, chunks : {<<>>}]

\* the segmenter applied to every text
SpecSeg == InitSplit /\ [][NextSeg]_vars

\* the chat session called directly
SpecChat == InitAccepted /\ [][NextChat]_vars

\* the chat session given user messages only
SpecDup == InitAccepted /\ [][NextDup]_vars

\* the blink thread alone
SpecBlink == InitAccepted /\ [][NextBlink]_vars

\* audio playback alone
SpecTts == InitAccepted /\ [][NextTts]_vars

\* the client reconnecting by itself
SpecRecon == InitAccepted /\ [][NextRecon]_vars

\* the classifier called with more texts than its cache holds
SpecLru == InitAccepted /\ [][NextLru]_vars

\* the pipeline alone
SpecPipe == InitAccepted /\ [][NextPipe]_vars

\* the pipeline with its blink thread, where every thread that can take a
\* step eventually does: calls in progress return, waits with a timeout end
SpecStop ==
  /\ InitAccepted
  /\ [][NextStop]_vars
  /\ WF_vars(MainStep)
  /\ WF_vars(TtsStep)
  /\ WF_vars(SttStop)
  /\ WF_vars(StopStep)
  /\ WF_vars(BlinkStep)

\* the speech recogniser alone
SpecRec == InitAccepted /\ [][NextRec]_vars

\* the classifier alone
SpecCls == InitAccepted /\ [][NextCls]_vars

\* the control-plane client with two caller threads
SpecVts == Init /\ [][NextVts]_vars

\* the injection operations over a network that drops sockets
SpecDrop == Init /\ [][NextDrop]_vars

\* the server goes down for good
SpecDown == InitAccepted /\ [][NextDown]_vars

\* the stored token is no longer accepted
SpecTok == InitRejected /\ [][NextTok]_vars

\* ------------------------------------------------------ control-plane claims
\* C2: a _send_request call that waited for a response never returns
\* another request's response, and never returns None while its own
\* response had arrived before its timeout ("late") or was still on its way
\* within the timeout ("early").
C2_OwnResponseReturned ==
  /\ ~vts.lastReq.foreign
  /\ vts.lastReq.why \notin {"early", "late"}

\* C3: a public operation called after RECONNECT_MAX_ATTEMPTS failed
\* reconnections in a row makes no connection attempt.
C3_NoConnectAfterExhaustion ==
  \A t \in CallersDown : vts.opInfo[t].exhausted => vts.opInfo[t].conn = 0

\* C4: a public operation that finds the state Connected starts an
\* authentication attempt before it proceeds or fails.
C4_ConnectedRetriggersAuth ==
  \A t \in Callers :
    (vts.opInfo[t].observed = "CONNECTED" /\ vts.opInfo[t].outcome # "running")
      => vts.opInfo[t].auths > 0

\* C5: the state is Authenticated only after Connecting and Connected have
\* been passed since the state was last Disconnected.
C5_NoSkipToAuthenticated ==
  vts.state = "AUTHENTICATED" => {"CONNECTING", "CONNECTED"} \subseteq vts.visited

\* C6 as stated: an injection operation called while Disconnected makes
\* exactly one connection attempt and at most one authentication sequence.
C6_ExactlyOneConnect ==
  \A t \in Callers :
    LET o == vts.opInfo[t] IN
    (o.kind = "inject_parameter" /\ o.observed = "DISCONNECTED")
      => /\ o.conn <= 1
         /\ o.auths <= 1
         /\ o.outcome # "running" => o.conn = 1

\* C6 amended: an injection operation called while Disconnected makes one
\* connection attempt and, beyond it, at most one more for every send that
\* raised WebSocketException within the call; it starts at most one
\* authentication sequence per connection attempt.
C6_OneConnectPerFailedSend ==
  \A t \in Callers :
    LET o == vts.opInfo[t] IN
    (o.kind = "inject_parameter" /\ o.observed = "DISCONNECTED")
      => /\ o.conn <= 1 + o.fails
         /\ o.auths <= o.conn
         /\ o.outcome # "running" => o.conn >= 1

\* C6 witness: an injection operation called while Disconnected has ended
\* after a failed send and a second connection attempt; another has ended
\* after one attempt
C6_Witness ==
  \E t \in Callers :
    LET o == vts.opInfo[t] IN
    /\ o.kind = "inject_parameter" /\ o.observed = "DISCONNECTED"
    /\ o.outcome \notin {"none", "running"}
    /\ o.fails = 1 /\ o.conn = 2

\* C7: on a reconnect the client sends no AuthenticationTokenRequest when it
\* authenticated with the token it was issued earlier in the run and the
\* server accepted it, the response reaching the client within the timeout.
C7_NoTokenRequestWhileAccepted ==
  ~(/\ vts.tokReq.sent
    /\ vts.tokReq.reused
    /\ vts.tokReq.accepted
    /\ vts.tokReq.why \in {"early", "late"})

\* C8: the parameter-injection operations never raise to the caller.
C8_InjectNeverRaises ==
  \A t \in Callers :
    vts.opInfo[t].kind = "inject_parameter" => vts.opInfo[t].outcome # "raised"

\* ------------------------------------------------------------ pipeline claims
\* C1: while the shutdown signal is not set the synthesis worker keeps
\* serving tts_queue: its loop has not ended, however long the queue was
\* empty, and nothing is handed to synthesize_and_play more than once.
C1_WorkerServesUntilShutdown ==
  /\ ~stop_event => ttsPc \notin {"dead", "done"}
  /\ \A i, j \in 1..Len(playLog) : i # j => playLog[i][1] # playLog[j][1]

LastUid == IF trace = <<>> THEN 0 ELSE trace[Len(trace)][1]

\* C9: main_loop handles utterances in the order they were put on
\* recognized_queue, and every step for one utterance (classification,
\* history append, chunk puts, recording of the reply) is finished before
\* the next utterance is dequeued.
C9_UtterancesInOrder ==
  /\ trace # <<>> => trace[1][2] = "get"
  /\ \A i \in 1..(Len(trace) - 1) :
       IF trace[i + 1][2] = "get"
       THEN /\ trace[i][1] < trace[i + 1][1]
            /\ trace[i][2] \in {"background", "assistant", "apology"}
       ELSE trace[i][1] = trace[i + 1][1]
  /\ \A k \in 1..Len(recognized_queue) :
       /\ recognized_queue[k].uid > LastUid
       /\ k > 1 => recognized_queue[k - 1].uid < recognized_queue[k].uid

\* C9 witness: the first utterance was answered with queued chunks and a
\* recorded reply, and the second one has been dequeued after that
C9_Witness ==
  \E i, j, k \in 1..Len(trace) :
    /\ i < j /\ j < k
    /\ trace[i] = <<1, "chunks">>
    /\ trace[j] = <<1, "assistant">>
    /\ trace[k] = <<2, "get">>

\* C10 as stated: the texts handed to synthesize_and_play are exactly the
\* texts put on tts_queue, in the same order.
C10_HandedExactlyAsPut ==
  \A i \in 1..Len(playLog) : i <= Len(putLog) /\ playLog[i][2] = putLog[i]

\* C10 amended: chunks are handed in the order they were put, none twice
\* and none skipped unless stop() has discarded queued chunks, and each is
\* handed in its preprocessed form.
C10_HandedInPutOrder ==
  /\ \A i \in 1..Len(playLog) :
       /\ playLog[i][1] \in 1..Len(putLog)
       /\ playLog[i][2] = preprocess(putLog[playLog[i][1]])
       /\ i > 1 => playLog[i - 1][1] < playLog[i][1]
  /\ stopPc # "done" => \A i \in 1..Len(playLog) : playLog[i][1] = i

\* C10 witness: two chunks of one reply and the chunk of a later reply have
\* all been handed over, one of them changed by the preprocessing
C10_Witness ==
  /\ Len(playLog) >= 3
  /\ \E i \in 1..Len(playLog) : playLog[i][2] # putLog[playLog[i][1]]
  /\ \E i, j \in 1..Len(trace) :
       i < j /\ trace[i] = <<1, "assistant">> /\ trace[j][1] = 2
             /\ trace[j][2] \in {"chunks", "assistant"}

\* C11: for a directed utterance main_loop appends the user message (and
\* then starts the reply stream) only while the speaking flag is clear or
\* the shutdown signal is set.
C11_NoAnswerWhileSpeaking ==
  [][(mainPc = "add_user" /\ mainPc' = "stream") => (~is_speaking \/ stop_event)]_vars

\* C12: the step that handles an utterance classified as background appends
\* exactly one user-role message carrying the background tag to the history
\* (the older messages keep their order, the oldest is dropped when the
\* history is full), puts nothing on tts_queue, does not start the reply
\* stream and leaves the speaking flag as it is.
C12_BackgroundOnlyRecorded ==
  [][(mainPc = "classify" /\ trace' = Append(trace, <<cur.uid, "background">>)) =>
       LET h == conversation_history
           g == conversation_history'
           d == Len(h) + 1 - Len(g) IN
       /\ Len(g) = IF Len(h) < max_history THEN Len(h) + 1 ELSE max_history
       /\ g[Len(g)] = [role |-> "user", content |-> BG_TAG \o cur.text]
       /\ \A i \in 1..(Len(g) - 1) : g[i] = h[i + d]
       /\ tts_queue' = tts_queue
       /\ putLog' = putLog
       /\ ntokens' = ntokens
       /\ mainPc' = "loop"
       /\ is_speaking' = is_speaking]_vars

\* C12 witness: the second utterance was handled as background while the
\* speaking flag was set, and the history ends with its tagged message
C12_Witness ==
  /\ trace # <<>>
  /\ trace[Len(trace)] = <<2, "background">>
  /\ is_speaking
  /\ conversation_history # <<>>
  /\ conversation_history[Len(conversation_history)] =
       [role |-> "user", content |-> BG_TAG \o cur.text]

\* C13: the step in which the reply stream raises puts exactly one apology
\* text at the end of tts_queue, leaves the shutdown signal and the history
\* alone, and returns main_loop to the top of its loop.
C13_ApologyOnStreamError ==
  [][(mainPc = "stream" /\ trace' = Append(trace, <<cur.uid, "apology">>)) =>
       /\ tts_queue' = Append(tts_queue, [n |-> Len(putLog) + 1, text |-> APOLOGY])
       /\ putLog' = Append(putLog, APOLOGY)
       /\ stop_event' = stop_event
       /\ conversation_history' = conversation_history
       /\ mainPc' = "loop"]_vars

\* C13 witness: the stream of the first reply raised after a chunk had been
\* queued, the apology is the last text put, the shutdown signal is clear
\* and the second utterance has been dequeued
C13_Witness ==
  /\ ~stop_event
  /\ \E i, j, k \in 1..Len(trace) :
       /\ i < j /\ j < k
       /\ trace[i] = <<1, "chunks">>
       /\ trace[j] = <<1, "apology">>
       /\ trace[k] = <<2, "get">>
  /\ \E n \in 1..Len(putLog) :
       /\ putLog[n] = APOLOGY
       /\ \A m \in 1..Len(putLog) : putLog[m] = APOLOGY => m = n

C15_NoTextAfterStopSeen == rec.late = 0

\* C16 as stated: of two calls with texts of the same normalised form, the
\* second at most cache_ttl after the first, the second does not call the
\* conversational service and returns what the first returned.
C16_SecondCallWithinTtl ==
  \A i \in 1..Len(cls.log) : \A j \in (i + 1)..Len(cls.log) :
    LET a == cls.log[i]  b == cls.log[j] IN
    (lower(strip(a.text)) = lower(strip(b.text)) /\ b.t - a.t <= cache_ttl) =>
      (b.how \notin {"llm", "error"} /\ b.result = a.result)

\* C16: when a call has stored its result in the cache at time T, every
\* later call with a text of the same normalised form made no later than
\* T + cache_ttl, the entry not evicted in between, is answered from the
\* cache: it returns the stored result and does not call the conversational
\* service.
C16_StoredResultReused ==
  \A i \in 1..Len(cls.log) : \A j \in (i + 1)..Len(cls.log) :
    LET a == cls.log[i]  b == cls.log[j] IN
    (/\ lower(strip(a.text)) = lower(strip(b.text))
     /\ a.stored
     /\ b.t <= a.T + cache_ttl
     /\ \A m \in (i + 1)..(j - 1) : cls.log[m].evicted # lower(strip(a.text))) =>
      (b.how = "hit" /\ b.result = a.result)

\* a text answered NO by the conversational service, and later, at the last
\* moment of the entry's life, the same text in capitals answered from the
\* cache
C16_Witness ==
  \E i \in 1..Len(cls.log) : \E j \in (i + 1)..Len(cls.log) :
    LET a == cls.log[i]  b == cls.log[j] IN
    /\ a.text = <<"x">> /\ a.how = "llm" /\ ~a.result
    /\ b.text = <<"X">> /\ b.how = "hit" /\ ~b.result
    /\ b.t = a.T + cache_ttl

\* C17 as stated: when the conversational service classified a text and
\* the result was cached at T, the next call with a text of the same
\* normalised form calls the service again if made later than T + cache_ttl,
\* and is a hit if made at T + cache_ttl (the entry not evicted in between).
C17_ExpiredEntryRefetched ==
  \A i \in 1..Len(cls.log) : \A j \in (i + 1)..Len(cls.log) :
    LET a == cls.log[i]  b == cls.log[j]  key == lower(strip(a.text)) IN
    (/\ a.how = "llm"
     /\ lower(strip(b.text)) = key
     /\ \A m \in (i + 1)..(j - 1) :
          lower(strip(cls.log[m].text)) # key /\ cls.log[m].evicted # key) =>
      /\ b.t > a.T + cache_ttl => (b.removed /\ b.how \in {"llm", "error"})
      /\ b.t = a.T + cache_ttl => (b.how = "hit" /\ b.result = a.result /\ ~b.removed)

\* C17: when the conversational service classified a text and the result
\* was cached at T, the next call with a text of the same normalised form
\* made later than T + cache_ttl removes the entry and is not answered from
\* the cache; it calls the service again unless the text as given is a short
\* question, which is classified directed without the service.  Made at
\* T + cache_ttl the call is a hit (the entry not evicted in between).
C17_ExpiredEntryDropped ==
  \A i \in 1..Len(cls.log) : \A j \in (i + 1)..Len(cls.log) :
    LET a == cls.log[i]  b == cls.log[j]  key == lower(strip(a.text)) IN
    (/\ a.how = "llm"
     /\ lower(strip(b.text)) = key
     /\ \A m \in (i + 1)..(j - 1) :
          lower(strip(cls.log[m].text)) # key /\ cls.log[m].evicted # key) =>
      /\ b.t > a.T + cache_ttl =>
           /\ b.removed
           /\ IF b.text # <<>> /\ b.text[Len(b.text)] = "?"
              THEN b.how = "question" /\ b.result
              ELSE b.how \in {"llm", "error"}
      /\ b.t = a.T + cache_ttl => (b.how = "hit" /\ b.result = a.result /\ ~b.removed)

\* a text answered by the conversational service, and the same text asked
\* again after the entry's life: the entry is removed and the service answers
\* again
C17_Witness ==
  \E i \in 1..Len(cls.log) : \E j \in (i + 1)..Len(cls.log) :
    LET a == cls.log[i]  b == cls.log[j] IN
    /\ a.text = <<"x", "?", " ">> /\ a.how = "llm" /\ a.result
    /\ b.text = a.text /\ b.t > a.T + cache_ttl
    /\ b.removed /\ b.how = "llm" /\ ~b.result

\* C18: a call with a text that contains a trigger word, in capitals or
\* not, returns directed whatever the cache holds and whatever the
\* conversational service would do, and does not call the service.
C18_TriggerWordAlwaysDirected ==
  \A i \in 1..Len(cls.log) :
    LET a == cls.log[i] IN
    (\E kw \in direct_keywords : contains(lower(a.text), lower(kw))) =>
      (a.result /\ a.how \in {"keyword", "hit"})

\* a text answered NO by the service, the trigger word in capitals with
\* whitespace, then the word in small letters answered from the cache
C18_Witness ==
  /\ Len(cls.log) = 3
  /\ cls.log[1].text = <<"x">> /\ cls.log[1].how = "llm" /\ ~cls.log[1].result
  /\ cls.log[2].text = <<"A", " ">> /\ cls.log[2].how = "keyword"
  /\ cls.log[3].text = <<"a">> /\ cls.log[3].how = "hit" /\ cls.log[3].result

\* C19: a call whose text is neither cached nor a trigger word nor a short
\* question, and for which the call of the conversational service fails,
\* returns background and stores nothing.
C19_FallbackFailureIsBackground ==
  \A i \in 1..Len(cls.log) :
    LET a == cls.log[i] IN
    a.how = "error" => (~a.result /\ ~a.stored /\ a.evicted = <<>>)

\* the service fails for a text while another text is cached; the cache is
\* left as it was and a further call is made
C19_Witness ==
  /\ Len(cls.log) = 3
  /\ cls.log[1].how = "llm" /\ cls.log[1].result /\ cls.log[1].text = <<"x", "?", " ">>
  /\ cls.log[2].how = "error" /\ cls.log[2].text = <<"X">> /\ ~cls.log[2].result
  /\ cls.log[3].how = "llm" /\ cls.log[3].text = <<"x">> /\ cls.log[3].result
  /\ cache_keys(cls.cache) = {<<"x", "?">>, <<"x">>}

\* C20: after every call the cache holds at most cache_size entries; a call
\* that stores a result while the cache is full removes exactly one of the
\* entries before it, and a call that stores while it is not full removes none
\* (apart from the expired entry of its own text).
C20_CacheBounded ==
  [][Len(cls.log') = Len(cls.log) + 1 =>
       LET a == cls.log'[Len(cls.log')]
           key == lower(strip(a.text))
           old == cache_keys(cls.cache) \ (IF a.removed THEN {key} ELSE {})
           new == cache_keys(cls.cache')
       IN
       /\ Len(cls.cache') <= cache_size
       /\ Cardinality(new) = Len(cls.cache')
       /\ a.stored =>
            /\ key \in new
            /\ IF Cardinality(old) >= cache_size
               THEN Cardinality(old \ new) = 1 /\ Len(cls.cache') = cache_size
               ELSE old \subseteq new
       /\ ~a.stored => new = old]_vars

\* the cache is full and a third text is stored: the oldest entry is gone
C20_Witness ==
  /\ Len(cls.log) = 3
  /\ \A i \in 1..3 : cls.log[i].stored
  /\ cls.log[3].evicted = lower(strip(cls.log[1].text))
  /\ Len(cls.cache) = cache_size
  /\ lower(strip(cls.log[1].text)) \notin cache_keys(cls.cache)

\* C21: every chunk split_text_into_chunks returns is at most max_size long.
C21_ChunksWithinMaxSize ==
  seg.pc = "returned" => \A i \in 1..Len(seg.chunks) : Len(seg.chunks[i]) <= seg.max_size

\* C22: the chunks split_text_into_chunks returns, concatenated in order, are
\* the text.
C22_ChunksReproduceText == seg.pc = "returned" => concat(seg.chunks) = seg.text

\* a text of two sentences with a long word, returned in three chunks or more
C22_Witness ==
  /\ seg.pc = "returned"
  /\ seg.text = <<".", " ", "a", "a", " ">>
  /\ seg.max_size = 1
  /\ Len(seg.chunks) >= 3
  /\ concat(seg.chunks) = seg.text

\* C23: a text no longer than max_size is returned as the one chunk, and
\* every returned chunk no longer than max_size is returned unchanged when
\* split again.
C23_ShortTextOneChunk ==
  seg.pc = "returned" =>
    /\ Len(seg.text) <= seg.max_size => seg.chunks = <<seg.text>>
    /\ \A i \in 1..Len(seg.chunks) :
         Len(seg.chunks[i]) <= seg.max_size =>
           split_text_into_chunks(seg.chunks[i], seg.max_size) = <<seg.chunks[i]>>

\* a text that ends a sentence, exactly max_size long, returned as it is
C23_Witness ==
  /\ seg.pc = "returned"
  /\ seg.text = <<"a", ".", " ">>
  /\ seg.max_size = 3
  /\ seg.chunks = <<seg.text>>

\* C24 as stated: every chunk returned is non-empty, for every text.
C24_NoEmptyChunk ==
  seg.pc = "returned" => \A i \in 1..Len(seg.chunks) : seg.chunks[i] # <<>>

\* C24: every chunk returned for a non-empty text is non-empty.
C24_NoEmptyChunkOfText ==
  (seg.pc = "returned" /\ seg.text # <<>>) =>
    \A i \in 1..Len(seg.chunks) : seg.chunks[i] # <<>>

\* a text that begins with a separator and holds a word longer than max_size
C24_Witness ==
  /\ seg.pc = "returned"
  /\ seg.text = <<".", "a", "a", " ", "a">>
  /\ seg.max_size = 1
  /\ seg.chunks # <<>>
  /\ \A i \in 1..Len(seg.chunks) : seg.chunks[i] # <<>>

\* C25: the history is the last max_history messages appended, in append
\* order, none of them the system message; the list sent by stream_response
\* is the system message followed by the history of that moment.
C25_HistoryIsLatestAppended ==
  LET Latest(n) == LET k == IF n < max_history THEN n ELSE max_history IN
                   [i \in 1..k |-> chat.appended[n - k + i].msg]
  IN
  /\ Len(conversation_history) <= max_history
  /\ conversation_history = Latest(Len(chat.appended))
  /\ \A i \in 1..Len(conversation_history) : conversation_history[i].role # "system"
  /\ chat.sent # <<>> =>
       /\ chat.sent[1] = system_message
       /\ Tail(chat.sent) = Latest(chat.sentAt)

\* more messages appended than the history holds, of all three kinds, and a
\* request made after the oldest was dropped
C25_Witness ==
  /\ Len(chat.appended) = max_history + 2
  /\ {chat.appended[i].kind : i \in 1..Len(chat.appended)} = {"user", "assistant", "background"}
  /\ chat.sentAt = max_history + 1
  /\ Len(chat.sent) = max_history + 1
  /\ chat.sent[2] = chat.appended[2].msg

\* the normalised user messages among the msg_cache_maxlen most recently
\* accepted
RecentlyAccepted ==
  LET acc == Accepted(chat.appended)
      from == IF Len(acc) > msg_cache_maxlen THEN Len(acc) - msg_cache_maxlen + 1 ELSE 1
  IN {acc[i] : i \in from..Len(acc)}

\* the call of add_user_message made by a step did what is described for a
\* message that is, or is not, a recent duplicate
DuplicateRejectedElseAppended ==
  LET m == chat'.last.m
      full == Append(conversation_history, [role |-> "user", content |-> m])
      from == IF Len(full) > max_history THEN Len(full) - max_history + 1 ELSE 1
  IN
  IF lower(strip(m)) \in RecentlyAccepted
  THEN /\ chat'.last.ret = FALSE
       /\ conversation_history' = conversation_history
       /\ msg_cache' = msg_cache
  ELSE /\ chat'.last.ret = TRUE
       /\ conversation_history' = SubSeq(full, from, Len(full))

\* C26: add_user_message(m), m not empty, returns False and changes neither
\* the history nor the duplicate cache when the normalised m is among the 10
\* most recently accepted messages, and otherwise appends one user message
\* and returns True.
C26_NonEmptyDuplicateOrAppended ==
  [][(chat'.last # chat.last /\ chat'.last.m # <<>>) => DuplicateRejectedElseAppended]_vars

\* C26 as amended: the same for an m that is not empty once trimmed; an m of
\* whitespace only returns False and changes nothing.
C26_NonBlankDuplicateOrAppended ==
  [][chat'.last # chat.last =>
       IF strip(chat'.last.m) # <<>> THEN DuplicateRejectedElseAppended
       ELSE /\ chat'.last.ret = FALSE
            /\ conversation_history' = conversation_history
            /\ msg_cache' = msg_cache]_vars

\* the first message, dropped from the duplicate cache by ten later ones, is
\* accepted again in capitals, and was rejected in capitals before that
C26_Witness ==
  /\ Len(chat.appended) = msg_cache_maxlen + 2
  /\ chat.appended[1].msg.content = <<"q", "1">>
  /\ chat.appended[msg_cache_maxlen + 2].msg.content = <<" ", "Q", "1", " ">>
  /\ chat.last = [m |-> <<" ", "Q", "1", " ">>, ret |-> TRUE]
  /\ Len(msg_cache) = msg_cache_maxlen

\* C27: a blink whose three calls all transmitted sent the eye-openness
\* values fully closed (0.0), slightly open (0.3), fully open (1.0) in this
\* order, and after a completed blink the last value transmitted leaves both
\* eyes fully open.
C27_BlinkClosesThenOpens ==
  LET sent == SubSeq(blink.log, blink.start + 1, Len(blink.log)) IN
  blink.pc = 4 =>
    /\ Len(sent) = 3 =>
         /\ [i \in 1..3 |-> sent[i].EyeOpenLeft] = <<0, 3, 10>>
         /\ [i \in 1..3 |-> sent[i].EyeOpenRight] = <<0, 3, 10>>
    /\ Len(sent) = 3 => sent[3] = [EyeOpenLeft |-> 10, EyeOpenRight |-> 10]

\* C28: when play_audio has finished playing a stream and was given a
\* client that is Authenticated, the last mouth value forwarded to the
\* client is 0.0.
C28_MouthClosedAfterPlayback ==
  (tts.pc = "done" /\ tts.client # None /\ tts.client.state = "AUTHENTICATED") =>
    (tts.mouth # <<>> /\ tts.mouth[Len(tts.mouth)] = 0)

\* a receiver thread, having found its socket closed, has reconnected: the
\* server has accepted a socket that no caller asked for, and the thread is
\* through with _handle_disconnection
ReceiverHasReconnected ==
  /\ vts.nkills = 1
  /\ vts.nsock > vts.opInfo[<<"c", 1>>].conn + vts.opInfo[<<"c", 2>>].conn
  /\ \A t \in Receivers : \A i \in 1..Len(vts.stack[t]) :
       vts.stack[t][i].fn # "_handle_disconnection"

\* the client is Authenticated again, having passed through Connecting, on
\* an open socket with a running receiver and heartbeat thread
Reconnected ==
  /\ vts.state = "AUTHENTICATED"
  /\ "CONNECTING" \in vts.visited
  /\ vts.ws \in vts.sockOpen
  /\ is_alive(vts, vts.receiver_thread)
  /\ is_alive(vts, vts.heartbeat_thread)

\* C29: when the receiver thread has found the socket closed while the
\* client was Authenticated, with auto-reconnect on, the budget not
\* exhausted and the server accepting the connection, the reconnection it
\* makes leaves the client Authenticated with a running receiver and
\* heartbeat thread, no public operation being called.
C29_ReceiverReconnects == ReceiverHasReconnected => Reconnected

\* no request is in flight: no thread is inside _send_request and no
\* response is on the wire
NoRequestInFlight ==
  /\ \A t \in Threads : \A i \in 1..Len(vts.stack[t]) : vts.stack[t][i].fn # "_send_request"
  /\ \A s \in 1..MaxSockets : vts.inbox[s] = <<>>

\* C30: whenever no request is in flight the response table is empty: every
\* response the receiver thread stored was removed when its round trip was
\* over, those of heartbeats and those that came after the caller's timeout
\* included.
C30_TableEmptyWhenIdle == NoRequestInFlight => vts.response_data = {}

\* thread t takes the step and holds the lock during it: it held the lock
\* before, holds it after, or the step begins by taking it (an operation
\* other than close() is entered, or a wait for the lock ends)
StepsUnderLock(t) ==
  /\ vts'.stack[t] # vts.stack[t]
  /\ \/ vts.lock_owner = t
     \/ vts'.lock_owner = t
     \/ vts.stack[t] # <<>> /\ Top(vts, t).pc = "lock"
     \/ vts.stack[t] = <<>> /\ vts'.opInfo[t].kind # "close"

\* C31: every write to the connection state is made by a thread that holds
\* the client's lock.
C31_StateWrittenUnderLock ==
  [][vts'.state # vts.state => \E t \in Threads : StepsUnderLock(t)]_vars

\* C32: the speaking flag is set while the synthesis worker is inside
\* synthesize_and_play and clear when the worker is back at its loop test or
\* blocks on tts_queue, however the chunk ended; only a step of the
\* synthesis worker changes the flag.
C32_SpeakingFlagBracketsChunk ==
  /\ [](ttsPc = "speak" => is_speaking)
  /\ [](ttsPc \in {"loop", "block"} => ~is_speaking)
  /\ [][is_speaking' # is_speaking => ttsPc' # ttsPc]_vars

\* the worker blocks on tts_queue again after two chunks, the flag clear
C32_Witness ==
  /\ ttsPc = "block"
  /\ Len(playLog) = 2
  /\ ~is_speaking

\* C33: when play_audio has returned or raised, the output stream it opened
\* has been stopped and closed.
C33_StreamClosedOnEveryExit ==
  tts.pc \in {"done", "error"} => tts.stream # "open"

\* a text without its whitespace
NoSpace(text) == SelectSeq(text, LAMBDA c : c \notin SpaceChars)

\* the step is the end of a reply stream that did not raise
ReplyEnds ==
  /\ mainPc = "stream"
  /\ mainPc' = "loop"
  /\ trace'[Len(trace')][2] = "assistant"

\* the step takes one token from the reply stream and goes on
TokenTaken ==
  /\ mainPc = "stream"
  /\ mainPc' = "stream"
  /\ ntokens' = ntokens + 1

\* the step puts what the token buffer holds, whitespace aside, at the end
\* of tts_queue, in chunks none of which is blank
BufferFlushed ==
  LET k == Len(putLog') - Len(putLog)
      put == SubSeq(putLog', Len(putLog) + 1, Len(putLog')) IN
  /\ k >= 0
  /\ SubSeq(putLog', 1, Len(putLog)) = putLog
  /\ NoSpace(concat(put)) = NoSpace(token_buffer)
  /\ \A i \in 1..k : strip(put[i]) # <<>>
  /\ Len(tts_queue') = Len(tts_queue) + k
  /\ \A i \in 1..k : tts_queue'[Len(tts_queue) + i].text = put[i]

\* the history with message m appended, the oldest dropped beyond max_history
Appended(h, m) ==
  LET full == Append(h, m)
      from == IF Len(full) > max_history THEN Len(full) - max_history + 1 ELSE 1
  IN SubSeq(full, from, Len(full))

\* while the reply is streamed, full_response grows by the token taken and
\* the history stays as add_user_message left it
RepliesAccumulate ==
  TokenTaken =>
    /\ \E token \in Tokens : full_response' = full_response \o token
    /\ conversation_history' = conversation_history

\* C34: when the reply stream ends without error, the token buffer has been
\* flushed to tts_queue and one assistant message holding the concatenation
\* of the streamed tokens has been appended to the history.
C34_ReplyFlushedAndRecorded ==
  [][/\ RepliesAccumulate
     /\ ReplyEnds =>
          /\ BufferFlushed
          /\ conversation_history' =
               Appended(conversation_history,
                        [role |-> "assistant", content |-> full_response])]_vars

\* C34 as amended: the same for a reply that is not blank; a reply that is
\* empty or whitespace only leaves the history as it was.
C34_NonBlankReplyRecorded ==
  [][/\ RepliesAccumulate
     /\ ReplyEnds =>
          /\ BufferFlushed
          /\ conversation_history' =
               IF strip(full_response) # <<>>
               THEN Appended(conversation_history,
                             [role |-> "assistant", content |-> full_response])
               ELSE conversation_history]_vars

\* a reply of two tokens has ended: its remainder was put on tts_queue and
\* the assistant message follows the user message in the history
C34_Witness ==
  /\ mainPc = "loop"
  /\ trace # <<>>
  /\ trace[Len(trace)][2] = "assistant"
  /\ full_response = <<"a", "a", "b", " ", "c">>
  /\ Len(conversation_history) >= 2
  /\ conversation_history[Len(conversation_history)] =
       [role |-> "assistant", content |-> full_response]
  /\ conversation_history[Len(conversation_history) - 1].role = "user"
  /\ putLog # <<>>

\* the number of the last call that used key k, by storing a result for it
\* or by finding it in the cache, 0 if there is none
LastUse(k) ==
  LET U == {i \in 1..Len(cls.log) :
              /\ lower(strip(cls.log[i].text)) = k
              /\ cls.log[i].how = "hit" \/ cls.log[i].stored} IN
  IF U = {} THEN 0 ELSE CHOOSE i \in U : \A j \in U : j <= i

\* the keys a call removes from the cache other than the key it looks up
Evicted ==
  LET key == lower(strip(cls'.log[Len(cls'.log)].text)) IN
  {k \in cache_keys(cls.cache) : k \notin cache_keys(cls'.cache) /\ k # key}

StopReturns == stopPc # "done" /\ stopPc' = "done"

\* C36: when stop() returns, recognized_queue and tts_queue are both empty,
\* and no chunk is taken from tts_queue for synthesis after the return
\* unless it was put after the return.
C36_QueuesEmptyWhenStopReturns ==
  /\ [][StopReturns => recognized_queue' = <<>> /\ tts_queue' = <<>>]_vars
  /\ [][stopPc = "done" /\ Len(playLog') > Len(playLog)
          => tts_queue # <<>> /\ ttsPc = "block"]_vars


\* ------------------------------------------------------------------------ C37
\* a call of close() is in progress
Closing == \E t \in Threads : vts.stack[t] # <<>> /\ vts.stack[t][1].fn = "close"

\* connect() has returned with state Authenticated on a socket that is up
Established ==
  /\ vts.state = "AUTHENTICATED"
  /\ vts.lock_owner = NoThread
  /\ vts.ws \in vts.sockOpen

\* C37: once a connection is established, the state stays Authenticated and
\* ws stays its socket until that socket fails or close() is called,
\* whatever the threads of earlier sockets do.
C37_EstablishedConnectionKept ==
  [][Established /\ ~Closing
       => vts'.state = "AUTHENTICATED" /\ vts'.ws = vts.ws]_vars


\* ------------------------------------------------------------------------ C38
\* the lock is free: what a thread outside the lock can observe
OutsideLock == vts.lock_owner = NoThread

\* C38: outside the lock, a state of Connected, Authenticating or
\* Authenticated implies that a socket is held, and state Disconnected
\* implies that ws is None.
C38_StateAgreesWithSocket ==
  OutsideLock =>
    /\ vts.state \in {"CONNECTED", "AUTHENTICATING", "AUTHENTICATED"} => vts.ws # 0
    /\ vts.state = "DISCONNECTED" => vts.ws = 0


\* ------------------------------------------------------------------------ C39
\* the activations of _handle_disconnection in thread t that are waiting
\* for their connect() to return
Reconnecting(t) ==
  Cardinality({i \in 1..Len(vts.stack[t]) :
                 /\ vts.stack[t][i].fn = "_handle_disconnection"
                 /\ vts.stack[t][i].pc = "after_connect"})

\* C39: the attempt counter counts the reconnections nested in a thread, so
\* that it stops them at RECONNECT_MAX_ATTEMPTS: a thread never has more
\* reconnections in progress than the counter says, also when a
\* connection has succeeded.
C39_CounterBoundsNestedReconnects ==
  \A t \in Threads :
    /\ Reconnecting(t) <= vts.reconnect_attempts
    /\ Reconnecting(t) <= RECONNECT_MAX_ATTEMPTS


\* ------------------------------------------------------------------------ C40
\* main_loop is about to hand add_user_message a text it rejects as a
\* duplicate
RejectedAsDuplicate ==
  /\ mainPc = "add_user"
  /\ strip(cur.text) # <<>>
  /\ InCache(msg_cache, lower(strip(cur.text)))

\* the reply to an utterance that was rejected is being streamed: the
\* history does not end with that utterance
AnsweringRejected ==
  /\ mainPc = "stream"
  /\ InCache(msg_cache, lower(strip(cur.text)))
  /\ \/ conversation_history = <<>>
     \/ conversation_history[Len(conversation_history)]
          # [role |-> "user", content |-> cur.text]

\* the messages of the history that add_user_message appended
DirectedAt(i) ==
  /\ conversation_history[i].role = "user"
  /\ LET content == conversation_history[i].content IN
       ~(Len(content) >= Len(BG_TAG) /\ SubSeq(content, 1, Len(BG_TAG)) = BG_TAG)

\* no directed message is in the history twice
NoRepeatedUserMessage ==
  \A i, j \in 1..Len(conversation_history) :
    (i < j /\ DirectedAt(i) /\ DirectedAt(j))
      => lower(strip(conversation_history[i].content))
           # lower(strip(conversation_history[j].content))

====
